---------------------------- MODULE Spec2Model ----------------------------
(***************************************************************************)
(* file-format: detection of a file's format from its first bytes.        *)
(*                                                                         *)
(* FileFormat::from_bytes walks the signatures! table of lib.rs in         *)
(* declaration order and returns the (media_type, extension) of the first  *)
(* rule one of whose alternatives has all its parts in the buffer; when no *)
(* rule applies it returns FileFormat::default().                          *)
(*                                                                         *)
(* A byte is a number in 0..255, a buffer (&[u8]) a sequence of bytes, a   *)
(* String the sequence of its UTF-8 bytes.  Rust slices are 0-based and    *)
(* half-open; sequences here are 1-based, so bytes[from..to] is            *)
(* SubSeq(bytes, from + 1, to).                                            *)
(***************************************************************************)
EXTENDS Integers, Sequences, FiniteSets, TLC

VARIABLES
  bytes,     \* the buffer handed to from_bytes by the last call
  format,    \* what that call returned (a FileFormat), NoFormat before any call
  panicked,  \* the call indexed the buffer out of range
  pc,        \* "idle" before the first call, "returned" after a call of
             \* from_bytes, "failed" when from_file returned before that call
  file,      \* what the path given to from_file names: its kind and contents
  io,        \* how File::open and the read of from_file ended
  buffer,    \* the local `buffer` of from_file after the read
  read,      \* the local `read` of from_file: the count the read returned
  result,    \* the Result from_file returned: its tag and, for Err, the call
             \* whose io::Error it carries
  before,    \* the buffer and the result of the call before the last one, when
             \* the program calls from_bytes again on a longer buffer
  scans      \* the calls of from_bytes that run side by side, one per thread:
             \* the buffer of each, the rule it is at, and what it returned

fileVars == <<file, io, buffer, read, result>>
vars == <<bytes, format, panicked, pc, fileVars, scans, before>>

\* MAX_BYTES one byte smaller.
MAX_BYTES_OneLess == 36870 - 1

\* FileFormat::MAX_BYTES
MAX_BYTES == 36870

\* ---------------------------------------------------------------------------
\* The signatures! table of lib.rs, one definition per rule, in declaration
\* order.  Strings are their UTF-8 bytes; value is the byte-string literal.
\* ---------------------------------------------------------------------------

\* media_type: "application/vnd.oasis.opendocument.presentation"  extension: "odp"
sig_odp ==
  [ media_type |-> <<97, 112, 112, 108, 105, 99, 97, 116, 105, 111, 110, 47, 118, 110, 100, 46, 111, 97, 115, 105, 115, 46, 111, 112, 101, 110, 100, 111, 99, 117, 109, 101, 110, 116, 46, 112, 114, 101, 115, 101, 110, 116, 97, 116, 105, 111, 110>>,
    extension |-> <<111, 100, 112>>,
    signatures |-> <<
      [ parts |-> <<
          [ offset |-> 0, value |-> <<80, 75, 3, 4>> ],
          [ offset |-> 30, value |-> <<109, 105, 109, 101, 116, 121, 112, 101>> ],
          [ offset |-> 38, value |-> <<97, 112, 112, 108, 105, 99, 97, 116, 105, 111, 110, 47, 118, 110, 100, 46, 111, 97, 115, 105, 115, 46, 111, 112, 101, 110, 100, 111, 99, 117, 109, 101, 110, 116, 46, 112, 114, 101, 115, 101, 110, 116, 97, 116, 105, 111, 110>> ] >> ] >> ]

\* media_type: "application/vnd.oasis.opendocument.spreadsheet"  extension: "ods"
sig_ods ==
  [ media_type |-> <<97, 112, 112, 108, 105, 99, 97, 116, 105, 111, 110, 47, 118, 110, 100, 46, 111, 97, 115, 105, 115, 46, 111, 112, 101, 110, 100, 111, 99, 117, 109, 101, 110, 116, 46, 115, 112, 114, 101, 97, 100, 115, 104, 101, 101, 116>>,
    extension |-> <<111, 100, 115>>,
    signatures |-> <<
      [ parts |-> <<
          [ offset |-> 0, value |-> <<80, 75, 3, 4>> ],
          [ offset |-> 30, value |-> <<109, 105, 109, 101, 116, 121, 112, 101>> ],
          [ offset |-> 38, value |-> <<97, 112, 112, 108, 105, 99, 97, 116, 105, 111, 110, 47, 118, 110, 100, 46, 111, 97, 115, 105, 115, 46, 111, 112, 101, 110, 100, 111, 99, 117, 109, 101, 110, 116, 46, 115, 112, 114, 101, 97, 100, 115, 104, 101, 101, 116>> ] >> ] >> ]

\* media_type: "application/vnd.oasis.opendocument.graphics"  extension: "odg"
sig_odg ==
  [ media_type |-> <<97, 112, 112, 108, 105, 99, 97, 116, 105, 111, 110, 47, 118, 110, 100, 46, 111, 97, 115, 105, 115, 46, 111, 112, 101, 110, 100, 111, 99, 117, 109, 101, 110, 116, 46, 103, 114, 97, 112, 104, 105, 99, 115>>,
    extension |-> <<111, 100, 103>>,
    signatures |-> <<
      [ parts |-> <<
          [ offset |-> 0, value |-> <<80, 75, 3, 4>> ],
          [ offset |-> 30, value |-> <<109, 105, 109, 101, 116, 121, 112, 101>> ],
          [ offset |-> 38, value |-> <<97, 112, 112, 108, 105, 99, 97, 116, 105, 111, 110, 47, 118, 110, 100, 46, 111, 97, 115, 105, 115, 46, 111, 112, 101, 110, 100, 111, 99, 117, 109, 101, 110, 116, 46, 103, 114, 97, 112, 104, 105, 99, 115>> ] >> ] >> ]

\* media_type: "application/vnd.oasis.opendocument.text"  extension: "odt"
sig_odt ==
  [ media_type |-> <<97, 112, 112, 108, 105, 99, 97, 116, 105, 111, 110, 47, 118, 110, 100, 46, 111, 97, 115, 105, 115, 46, 111, 112, 101, 110, 100, 111, 99, 117, 109, 101, 110, 116, 46, 116, 101, 120, 116>>,
    extension |-> <<111, 100, 116>>,
    signatures |-> <<
      [ parts |-> <<
          [ offset |-> 0, value |-> <<80, 75, 3, 4>> ],
          [ offset |-> 30, value |-> <<109, 105, 109, 101, 116, 121, 112, 101>> ],
          [ offset |-> 38, value |-> <<97, 112, 112, 108, 105, 99, 97, 116, 105, 111, 110, 47, 118, 110, 100, 46, 111, 97, 115, 105, 115, 46, 111, 112, 101, 110, 100, 111, 99, 117, 109, 101, 110, 116, 46, 116, 101, 120, 116>> ] >> ] >> ]

\* media_type: "application/x-virtualbox-vdi"  extension: "vdi"
sig_vdi ==
  [ media_type |-> <<97, 112, 112, 108, 105, 99, 97, 116, 105, 111, 110, 47, 120, 45, 118, 105, 114, 116, 117, 97, 108, 98, 111, 120, 45, 118, 100, 105>>,
    extension |-> <<118, 100, 105>>,
    signatures |-> <<
      [ parts |-> <<
          [ offset |-> 0, value |-> <<60, 60, 60, 32, 79, 114, 97, 99, 108, 101, 32, 86, 77, 32, 86, 105, 114, 116, 117, 97, 108, 66, 111, 120, 32, 68, 105, 115, 107, 32, 73, 109, 97, 103, 101, 32, 62, 62, 62>> ] >> ] >> ]

\* media_type: "application/epub+zip"  extension: "epub"
sig_epub ==
  [ media_type |-> <<97, 112, 112, 108, 105, 99, 97, 116, 105, 111, 110, 47, 101, 112, 117, 98, 43, 122, 105, 112>>,
    extension |-> <<101, 112, 117, 98>>,
    signatures |-> <<
      [ parts |-> <<
          [ offset |-> 0, value |-> <<80, 75, 3, 4>> ],
          [ offset |-> 30, value |-> <<109, 105, 109, 101, 116, 121, 112, 101>> ],
          [ offset |-> 38, value |-> <<97, 112, 112, 108, 105, 99, 97, 116, 105, 111, 110, 47, 101, 112, 117, 98, 43, 122, 105, 112>> ] >> ] >> ]

\* media_type: "application/vnd.sketchup.skp"  extension: "skp"
sig_skp ==
  [ media_type |-> <<97, 112, 112, 108, 105, 99, 97, 116, 105, 111, 110, 47, 118, 110, 100, 46, 115, 107, 101, 116, 99, 104, 117, 112, 46, 115, 107, 112>>,
    extension |-> <<115, 107, 112>>,
    signatures |-> <<
      [ parts |-> <<
          [ offset |-> 0, value |-> <<255, 254, 255, 14, 83, 0, 107, 0, 101, 0, 116, 0, 99, 0, 104, 0>> ],
          [ offset |-> 16, value |-> <<85, 0, 112, 0, 32, 0, 77, 0, 111, 0, 100, 0, 101, 0, 108, 0>> ] >> ] >> ]

\* media_type: "application/vnd.debian.binary-package"  extension: "deb"
sig_deb ==
  [ media_type |-> <<97, 112, 112, 108, 105, 99, 97, 116, 105, 111, 110, 47, 118, 110, 100, 46, 100, 101, 98, 105, 97, 110, 46, 98, 105, 110, 97, 114, 121, 45, 112, 97, 99, 107, 97, 103, 101>>,
    extension |-> <<100, 101, 98>>,
    signatures |-> <<
      [ parts |-> <<
          [ offset |-> 0, value |-> <<33, 60, 97, 114, 99, 104, 62, 10>> ],
          [ offset |-> 8, value |-> <<100, 101, 98, 105, 97, 110, 45, 98, 105, 110, 97, 114, 121>> ] >> ] >> ]

\* media_type: "application/vnd.sqlite3"  extension: "sqlite"
sig_sqlite ==
  [ media_type |-> <<97, 112, 112, 108, 105, 99, 97, 116, 105, 111, 110, 47, 118, 110, 100, 46, 115, 113, 108, 105, 116, 101, 51>>,
    extension |-> <<115, 113, 108, 105, 116, 101>>,
    signatures |-> <<
      [ parts |-> <<
          [ offset |-> 0, value |-> <<83, 81, 76, 105, 116, 101, 32, 102, 111, 114, 109, 97, 116, 32, 51, 0>> ] >> ] >> ]

\* media_type: "application/x-indesign"  extension: "indd"
sig_indd ==
  [ media_type |-> <<97, 112, 112, 108, 105, 99, 97, 116, 105, 111, 110, 47, 120, 45, 105, 110, 100, 101, 115, 105, 103, 110>>,
    extension |-> <<105, 110, 100, 100>>,
    signatures |-> <<
      [ parts |-> <<
          [ offset |-> 0, value |-> <<6, 6, 237, 245, 216, 29, 70, 229, 189, 49, 239, 231, 254, 116, 183, 29>> ] >> ] >> ]

\* media_type: "application/mxf"  extension: "mxf"
sig_mxf ==
  [ media_type |-> <<97, 112, 112, 108, 105, 99, 97, 116, 105, 111, 110, 47, 109, 120, 102>>,
    extension |-> <<109, 120, 102>>,
    signatures |-> <<
      [ parts |-> <<
          [ offset |-> 0, value |-> <<6, 14, 43, 52, 2, 5, 1, 1, 13, 1, 2, 1, 1, 2>> ] >> ] >> ]

\* media_type: "audio/opus"  extension: "opus"
sig_opus ==
  [ media_type |-> <<97, 117, 100, 105, 111, 47, 111, 112, 117, 115>>,
    extension |-> <<111, 112, 117, 115>>,
    signatures |-> <<
      [ parts |-> <<
          [ offset |-> 0, value |-> <<79, 103, 103, 83>> ],
          [ offset |-> 28, value |-> <<79, 112, 117, 115, 72, 101, 97, 100>> ] >> ] >> ]

\* media_type: "image/apng"  extension: "apng"
sig_apng ==
  [ media_type |-> <<105, 109, 97, 103, 101, 47, 97, 112, 110, 103>>,
    extension |-> <<97, 112, 110, 103>>,
    signatures |-> <<
      [ parts |-> <<
          [ offset |-> 0, value |-> <<137, 80, 78, 71, 13, 10, 26, 10>> ],
          [ offset |-> 37, value |-> <<97, 99, 84, 76>> ] >> ] >> ]

\* media_type: "image/jpeg"  extension: "jpg"
sig_jpg ==
  [ media_type |-> <<105, 109, 97, 103, 101, 47, 106, 112, 101, 103>>,
    extension |-> <<106, 112, 103>>,
    signatures |-> <<
      [ parts |-> <<
          [ offset |-> 0, value |-> <<255, 216, 255, 224, 0, 16, 74, 70, 73, 70, 0, 1>> ] >> ],
      [ parts |-> <<
          [ offset |-> 0, value |-> <<255, 216, 255, 225>> ],
          [ offset |-> 6, value |-> <<69, 120, 105, 102, 0, 0>> ] >> ],
      [ parts |-> <<
          [ offset |-> 0, value |-> <<255, 216, 255, 219>> ] >> ],
      [ parts |-> <<
          [ offset |-> 0, value |-> <<255, 216, 255, 238>> ] >> ] >> ]

\* media_type: "image/jxl"  extension: "jxl"
sig_jxl ==
  [ media_type |-> <<105, 109, 97, 103, 101, 47, 106, 120, 108>>,
    extension |-> <<106, 120, 108>>,
    signatures |-> <<
      [ parts |-> <<
          [ offset |-> 0, value |-> <<0, 0, 0, 12, 74, 88, 76, 32, 13, 10, 135, 10>> ] >> ],
      [ parts |-> <<
          [ offset |-> 0, value |-> <<255, 10>> ] >> ] >> ]

\* media_type: "image/ktx"  extension: "ktx"
sig_ktx ==
  [ media_type |-> <<105, 109, 97, 103, 101, 47, 107, 116, 120>>,
    extension |-> <<107, 116, 120>>,
    signatures |-> <<
      [ parts |-> <<
          [ offset |-> 0, value |-> <<171, 75, 84, 88, 32, 49, 49, 187, 13, 10, 26, 10>> ] >> ] >> ]

\* media_type: "image/ktx2"  extension: "ktx2"
sig_ktx2 ==
  [ media_type |-> <<105, 109, 97, 103, 101, 47, 107, 116, 120, 50>>,
    extension |-> <<107, 116, 120, 50>>,
    signatures |-> <<
      [ parts |-> <<
          [ offset |-> 0, value |-> <<171, 75, 84, 88, 32, 50, 48, 187, 13, 10, 26, 10>> ] >> ] >> ]

\* media_type: "video/x-matroska"  extension: "mkv"
sig_mkv ==
  [ media_type |-> <<118, 105, 100, 101, 111, 47, 120, 45, 109, 97, 116, 114, 111, 115, 107, 97>>,
    extension |-> <<109, 107, 118>>,
    signatures |-> <<
      [ parts |-> <<
          [ offset |-> 0, value |-> <<26, 69, 223, 163>> ],
          [ offset |-> 24, value |-> <<109, 97, 116, 114, 111, 115, 107, 97>> ] >> ] >> ]

\* media_type: "audio/ogg"  extension: "ogg"
sig_ogg ==
  [ media_type |-> <<97, 117, 100, 105, 111, 47, 111, 103, 103>>,
    extension |-> <<111, 103, 103>>,
    signatures |-> <<
      [ parts |-> <<
          [ offset |-> 0, value |-> <<79, 103, 103, 83>> ],
          [ offset |-> 29, value |-> <<118, 111, 114, 98, 105, 115>> ] >> ] >> ]

\* media_type: "image/fits"  extension: "fits"
sig_fits ==
  [ media_type |-> <<105, 109, 97, 103, 101, 47, 102, 105, 116, 115>>,
    extension |-> <<102, 105, 116, 115>>,
    signatures |-> <<
      [ parts |-> <<
          [ offset |-> 0, value |-> <<83, 73, 77, 80, 76, 69, 32, 32, 61, 32>> ] >> ] >> ]

\* media_type: "video/ogg"  extension: "ogv"
sig_ogv ==
  [ media_type |-> <<118, 105, 100, 101, 111, 47, 111, 103, 103>>,
    extension |-> <<111, 103, 118>>,
    signatures |-> <<
      [ parts |-> <<
          [ offset |-> 0, value |-> <<79, 103, 103, 83>> ],
          [ offset |-> 29, value |-> <<116, 104, 101, 111, 114, 97>> ] >> ] >> ]

\* media_type: "video/quicktime"  extension: "mov"
sig_mov ==
  [ media_type |-> <<118, 105, 100, 101, 111, 47, 113, 117, 105, 99, 107, 116, 105, 109, 101>>,
    extension |-> <<109, 111, 118>>,
    signatures |-> <<
      [ parts |-> <<
          [ offset |-> 0, value |-> <<0, 0, 0, 20>> ],
          [ offset |-> 4, value |-> <<102, 116, 121, 112, 113, 116>> ] >> ] >> ]

\* media_type: "video/x-ms-asf"  extension: "wmv"
sig_wmv ==
  [ media_type |-> <<118, 105, 100, 101, 111, 47, 120, 45, 109, 115, 45, 97, 115, 102>>,
    extension |-> <<119, 109, 118>>,
    signatures |-> <<
      [ parts |-> <<
          [ offset |-> 0, value |-> <<48, 38, 178, 117, 142, 102, 207, 17, 166, 217>> ] >> ] >> ]

\* media_type: "application/x-gameboy-color-rom"  extension: "gbc"
sig_gbc ==
  [ media_type |-> <<97, 112, 112, 108, 105, 99, 97, 116, 105, 111, 110, 47, 120, 45, 103, 97, 109, 101, 98, 111, 121, 45, 99, 111, 108, 111, 114, 45, 114, 111, 109>>,
    extension |-> <<103, 98, 99>>,
    signatures |-> <<
      [ parts |-> <<
          [ offset |-> 260, value |-> <<206, 237, 102, 102, 204, 13, 0, 11>> ],
          [ offset |-> 323, value |-> <<128>> ] >> ],
      [ parts |-> <<
          [ offset |-> 260, value |-> <<206, 237, 102, 102, 204, 13, 0, 11>> ],
          [ offset |-> 323, value |-> <<192>> ] >> ] >> ]

\* media_type: "application/x-lzop"  extension: "lzo"
sig_lzo ==
  [ media_type |-> <<97, 112, 112, 108, 105, 99, 97, 116, 105, 111, 110, 47, 120, 45, 108, 122, 111, 112>>,
    extension |-> <<108, 122, 111>>,
    signatures |-> <<
      [ parts |-> <<
          [ offset |-> 0, value |-> <<137, 76, 90, 79, 0, 13, 10, 26, 10>> ] >> ] >> ]

\* sig_spx with the extension of the rule audio/ogg oga.
sig_spx_Oga ==
  [ media_type |-> <<97, 117, 100, 105, 111, 47, 111, 103, 103>>,
    extension |-> <<111, 103, 97>>,
    signatures |-> <<
      [ parts |-> <<
          [ offset |-> 0, value |-> <<79, 103, 103, 83>> ],
          [ offset |-> 28, value |-> <<83, 112, 101, 101, 120>> ] >> ] >> ]

\* media_type: "audio/ogg"  extension: "spx"
sig_spx ==
  [ media_type |-> <<97, 117, 100, 105, 111, 47, 111, 103, 103>>,
    extension |-> <<115, 112, 120>>,
    signatures |-> <<
      [ parts |-> <<
          [ offset |-> 0, value |-> <<79, 103, 103, 83>> ],
          [ offset |-> 28, value |-> <<83, 112, 101, 101, 120>> ] >> ] >> ]

\* media_type: "image/x-olympus-orf"  extension: "orf"
sig_orf ==
  [ media_type |-> <<105, 109, 97, 103, 101, 47, 120, 45, 111, 108, 121, 109, 112, 117, 115, 45, 111, 114, 102>>,
    extension |-> <<111, 114, 102>>,
    signatures |-> <<
      [ parts |-> <<
          [ offset |-> 0, value |-> <<73, 73, 82, 79, 8, 0, 0, 0, 24>> ] >> ] >> ]

\* media_type: "video/ogg"  extension: "ogm"
sig_ogm ==
  [ media_type |-> <<118, 105, 100, 101, 111, 47, 111, 103, 103>>,
    extension |-> <<111, 103, 109>>,
    signatures |-> <<
      [ parts |-> <<
          [ offset |-> 0, value |-> <<79, 103, 103, 83>> ],
          [ offset |-> 29, value |-> <<118, 105, 100, 101, 111>> ] >> ] >> ]

\* media_type: "application/vnd.rar"  extension: "rar"
sig_rar ==
  [ media_type |-> <<97, 112, 112, 108, 105, 99, 97, 116, 105, 111, 110, 47, 118, 110, 100, 46, 114, 97, 114>>,
    extension |-> <<114, 97, 114>>,
    signatures |-> <<
      [ parts |-> <<
          [ offset |-> 0, value |-> <<82, 97, 114, 33, 26, 7, 1, 0>> ] >> ],
      [ parts |-> <<
          [ offset |-> 0, value |-> <<82, 97, 114, 33, 26, 7, 0>> ] >> ] >> ]

\* media_type: "application/x-gameboy-rom"  extension: "gb"
sig_gb ==
  [ media_type |-> <<97, 112, 112, 108, 105, 99, 97, 116, 105, 111, 110, 47, 120, 45, 103, 97, 109, 101, 98, 111, 121, 45, 114, 111, 109>>,
    extension |-> <<103, 98>>,
    signatures |-> <<
      [ parts |-> <<
          [ offset |-> 260, value |-> <<206, 237, 102, 102, 204, 13, 0, 11>> ] >> ] >> ]

\* media_type: "application/x-gba-rom"  extension: "gba"
sig_gba ==
  [ media_type |-> <<97, 112, 112, 108, 105, 99, 97, 116, 105, 111, 110, 47, 120, 45, 103, 98, 97, 45, 114, 111, 109>>,
    extension |-> <<103, 98, 97>>,
    signatures |-> <<
      [ parts |-> <<
          [ offset |-> 4, value |-> <<36, 255, 174, 81, 105, 154, 162, 33>> ] >> ] >> ]

\* media_type: "application/x-mobipocket-ebook"  extension: "mobi"
sig_mobi ==
  [ media_type |-> <<97, 112, 112, 108, 105, 99, 97, 116, 105, 111, 110, 47, 120, 45, 109, 111, 98, 105, 112, 111, 99, 107, 101, 116, 45, 101, 98, 111, 111, 107>>,
    extension |-> <<109, 111, 98, 105>>,
    signatures |-> <<
      [ parts |-> <<
          [ offset |-> 60, value |-> <<66, 79, 79, 75, 77, 79, 66, 73>> ] >> ] >> ]

\* media_type: "application/x-ms-shortcut"  extension: "lnk"
sig_lnk ==
  [ media_type |-> <<97, 112, 112, 108, 105, 99, 97, 116, 105, 111, 110, 47, 120, 45, 109, 115, 45, 115, 104, 111, 114, 116, 99, 117, 116>>,
    extension |-> <<108, 110, 107>>,
    signatures |-> <<
      [ parts |-> <<
          [ offset |-> 0, value |-> <<76, 0, 0, 0, 1, 20, 2, 0>> ] >> ] >> ]

\* media_type: "application/x-n64-rom"  extension: "z64"
sig_z64 ==
  [ media_type |-> <<97, 112, 112, 108, 105, 99, 97, 116, 105, 111, 110, 47, 120, 45, 110, 54, 52, 45, 114, 111, 109>>,
    extension |-> <<122, 54, 52>>,
    signatures |-> <<
      [ parts |-> <<
          [ offset |-> 0, value |-> <<128, 55, 18, 64, 0, 0, 0, 15>> ] >> ],
      [ parts |-> <<
          [ offset |-> 0, value |-> <<55, 128, 64, 18, 0, 0, 15, 0>> ] >> ],
      [ parts |-> <<
          [ offset |-> 0, value |-> <<18, 64, 128, 55, 0, 15, 0, 0>> ] >> ],
      [ parts |-> <<
          [ offset |-> 0, value |-> <<64, 18, 55, 128, 15, 0, 0, 0>> ] >> ] >> ]

\* media_type: "application/x-nintendo-ds-rom"  extension: "nds"
sig_nds ==
  [ media_type |-> <<97, 112, 112, 108, 105, 99, 97, 116, 105, 111, 110, 47, 120, 45, 110, 105, 110, 116, 101, 110, 100, 111, 45, 100, 115, 45, 114, 111, 109>>,
    extension |-> <<110, 100, 115>>,
    signatures |-> <<
      [ parts |-> <<
          [ offset |-> 192, value |-> <<36, 255, 174, 81, 105, 154, 162, 33>> ] >> ],
      [ parts |-> <<
          [ offset |-> 192, value |-> <<200, 96, 79, 226, 1, 112, 143, 226>> ] >> ] >> ]

\* media_type: "application/x-ole-storage"  extension: "msi"
sig_msi ==
  [ media_type |-> <<97, 112, 112, 108, 105, 99, 97, 116, 105, 111, 110, 47, 120, 45, 111, 108, 101, 45, 115, 116, 111, 114, 97, 103, 101>>,
    extension |-> <<109, 115, 105>>,
    signatures |-> <<
      [ parts |-> <<
          [ offset |-> 0, value |-> <<208, 207, 17, 224, 161, 177, 26, 225>> ] >> ] >> ]

\* media_type: "application/x-tar"  extension: "tar"
sig_tar ==
  [ media_type |-> <<97, 112, 112, 108, 105, 99, 97, 116, 105, 111, 110, 47, 120, 45, 116, 97, 114>>,
    extension |-> <<116, 97, 114>>,
    signatures |-> <<
      [ parts |-> <<
          [ offset |-> 257, value |-> <<117, 115, 116, 97, 114, 0, 48, 48>> ] >> ],
      [ parts |-> <<
          [ offset |-> 257, value |-> <<117, 115, 116, 97, 114, 32, 32, 0>> ] >> ] >> ]

\* media_type: "audio/aiff"  extension: "aif"
sig_aif ==
  [ media_type |-> <<97, 117, 100, 105, 111, 47, 97, 105, 102, 102>>,
    extension |-> <<97, 105, 102>>,
    signatures |-> <<
      [ parts |-> <<
          [ offset |-> 0, value |-> <<70, 79, 82, 77>> ],
          [ offset |-> 8, value |-> <<65, 73, 70, 70>> ] >> ] >> ]

\* media_type: "audio/ogg"  extension: "oga"
sig_oga ==
  [ media_type |-> <<97, 117, 100, 105, 111, 47, 111, 103, 103>>,
    extension |-> <<111, 103, 97>>,
    signatures |-> <<
      [ parts |-> <<
          [ offset |-> 0, value |-> <<79, 103, 103, 83>> ],
          [ offset |-> 29, value |-> <<70, 76, 65, 67>> ] >> ] >> ]

\* media_type: "audio/vnd.wave"  extension: "wav"
sig_wav ==
  [ media_type |-> <<97, 117, 100, 105, 111, 47, 118, 110, 100, 46, 119, 97, 118, 101>>,
    extension |-> <<119, 97, 118>>,
    signatures |-> <<
      [ parts |-> <<
          [ offset |-> 0, value |-> <<82, 73, 70, 70>> ],
          [ offset |-> 8, value |-> <<87, 65, 86, 69>> ] >> ] >> ]

\* media_type: "image/avif"  extension: "avif"
sig_avif ==
  [ media_type |-> <<105, 109, 97, 103, 101, 47, 97, 118, 105, 102>>,
    extension |-> <<97, 118, 105, 102>>,
    signatures |-> <<
      [ parts |-> <<
          [ offset |-> 4, value |-> <<102, 116, 121, 112, 97, 118, 105, 102>> ] >> ] >> ]

\* media_type: "image/heic"  extension: "heic"
sig_heic ==
  [ media_type |-> <<105, 109, 97, 103, 101, 47, 104, 101, 105, 99>>,
    extension |-> <<104, 101, 105, 99>>,
    signatures |-> <<
      [ parts |-> <<
          [ offset |-> 4, value |-> <<102, 116, 121, 112, 104, 101, 105, 99>> ] >> ],
      [ parts |-> <<
          [ offset |-> 4, value |-> <<102, 116, 121, 112, 104, 101, 105, 120>> ] >> ] >> ]

\* sig_png with the media type mistyped as "image/x-png".
sig_png_XPng ==
  [ media_type |-> <<105, 109, 97, 103, 101, 47, 120, 45, 112, 110, 103>>,
    extension |-> <<112, 110, 103>>,
    signatures |-> <<
      [ parts |-> <<
          [ offset |-> 0, value |-> <<137, 80, 78, 71, 13, 10, 26, 10>> ] >> ] >> ]

\* media_type: "image/png"  extension: "png"
sig_png ==
  [ media_type |-> <<105, 109, 97, 103, 101, 47, 112, 110, 103>>,
    extension |-> <<112, 110, 103>>,
    signatures |-> <<
      [ parts |-> <<
          [ offset |-> 0, value |-> <<137, 80, 78, 71, 13, 10, 26, 10>> ] >> ] >> ]

\* media_type: "image/webp"  extension: "webp"
sig_webp ==
  [ media_type |-> <<105, 109, 97, 103, 101, 47, 119, 101, 98, 112>>,
    extension |-> <<119, 101, 98, 112>>,
    signatures |-> <<
      [ parts |-> <<
          [ offset |-> 0, value |-> <<82, 73, 70, 70>> ],
          [ offset |-> 8, value |-> <<87, 69, 66, 80>> ] >> ] >> ]

\* media_type: "image/x-xcf"  extension: "xcf"
sig_xcf ==
  [ media_type |-> <<105, 109, 97, 103, 101, 47, 120, 45, 120, 99, 102>>,
    extension |-> <<120, 99, 102>>,
    signatures |-> <<
      [ parts |-> <<
          [ offset |-> 0, value |-> <<103, 105, 109, 112, 32, 120, 99, 102>> ] >> ] >> ]

\* media_type: "video/avi"  extension: "avi"
sig_avi ==
  [ media_type |-> <<118, 105, 100, 101, 111, 47, 97, 118, 105>>,
    extension |-> <<97, 118, 105>>,
    signatures |-> <<
      [ parts |-> <<
          [ offset |-> 0, value |-> <<82, 73, 70, 70>> ],
          [ offset |-> 8, value |-> <<65, 86, 73, 32>> ] >> ] >> ]

\* media_type: "video/mp4"  extension: "mp4"
sig_mp4 ==
  [ media_type |-> <<118, 105, 100, 101, 111, 47, 109, 112, 52>>,
    extension |-> <<109, 112, 52>>,
    signatures |-> <<
      [ parts |-> <<
          [ offset |-> 4, value |-> <<102, 116, 121, 112, 97, 118, 99, 49>> ] >> ],
      [ parts |-> <<
          [ offset |-> 4, value |-> <<102, 116, 121, 112, 100, 97, 115, 104>> ] >> ],
      [ parts |-> <<
          [ offset |-> 4, value |-> <<102, 116, 121, 112, 105, 115, 111, 50>> ] >> ],
      [ parts |-> <<
          [ offset |-> 4, value |-> <<102, 116, 121, 112, 105, 115, 111, 51>> ] >> ],
      [ parts |-> <<
          [ offset |-> 4, value |-> <<102, 116, 121, 112, 105, 115, 111, 52>> ] >> ],
      [ parts |-> <<
          [ offset |-> 4, value |-> <<102, 116, 121, 112, 105, 115, 111, 53>> ] >> ],
      [ parts |-> <<
          [ offset |-> 4, value |-> <<102, 116, 121, 112, 105, 115, 111, 54>> ] >> ],
      [ parts |-> <<
          [ offset |-> 4, value |-> <<102, 116, 121, 112, 105, 115, 111, 109>> ] >> ],
      [ parts |-> <<
          [ offset |-> 4, value |-> <<102, 116, 121, 112, 109, 109, 112, 52>> ] >> ],
      [ parts |-> <<
          [ offset |-> 4, value |-> <<102, 116, 121, 112, 109, 112, 52, 49>> ] >> ],
      [ parts |-> <<
          [ offset |-> 4, value |-> <<102, 116, 121, 112, 109, 112, 52, 50>> ] >> ],
      [ parts |-> <<
          [ offset |-> 4, value |-> <<102, 116, 121, 112, 109, 112, 52, 118>> ] >> ],
      [ parts |-> <<
          [ offset |-> 4, value |-> <<102, 116, 121, 112, 109, 112, 55, 49>> ] >> ],
      [ parts |-> <<
          [ offset |-> 4, value |-> <<102, 116, 121, 112, 77, 83, 78, 86>> ] >> ],
      [ parts |-> <<
          [ offset |-> 4, value |-> <<102, 116, 121, 112, 78, 68, 65, 83>> ] >> ],
      [ parts |-> <<
          [ offset |-> 4, value |-> <<102, 116, 121, 112, 78, 68, 83, 67>> ] >> ],
      [ parts |-> <<
          [ offset |-> 4, value |-> <<102, 116, 121, 112, 78, 68, 83, 72>> ] >> ],
      [ parts |-> <<
          [ offset |-> 4, value |-> <<102, 116, 121, 112, 78, 68, 83, 77>> ] >> ],
      [ parts |-> <<
          [ offset |-> 4, value |-> <<102, 116, 121, 112, 78, 68, 83, 80>> ] >> ],
      [ parts |-> <<
          [ offset |-> 4, value |-> <<102, 116, 121, 112, 78, 68, 83, 83>> ] >> ],
      [ parts |-> <<
          [ offset |-> 4, value |-> <<102, 116, 121, 112, 78, 68, 88, 67>> ] >> ],
      [ parts |-> <<
          [ offset |-> 4, value |-> <<102, 116, 121, 112, 78, 68, 88, 72>> ] >> ],
      [ parts |-> <<
          [ offset |-> 4, value |-> <<102, 116, 121, 112, 78, 68, 88, 77>> ] >> ],
      [ parts |-> <<
          [ offset |-> 4, value |-> <<102, 116, 121, 112, 78, 68, 88, 80>> ] >> ],
      [ parts |-> <<
          [ offset |-> 4, value |-> <<102, 116, 121, 112, 70, 52, 86>> ] >> ],
      [ parts |-> <<
          [ offset |-> 4, value |-> <<102, 116, 121, 112, 70, 52, 80>> ] >> ] >> ]

\* media_type: "video/webm"  extension: "webm"
sig_webm ==
  [ media_type |-> <<118, 105, 100, 101, 111, 47, 119, 101, 98, 109>>,
    extension |-> <<119, 101, 98, 109>>,
    signatures |-> <<
      [ parts |-> <<
          [ offset |-> 0, value |-> <<26, 69, 223, 163>> ],
          [ offset |-> 24, value |-> <<119, 101, 98, 109>> ] >> ] >> ]

\* media_type: "application/x-archive"  extension: "ar"
sig_ar ==
  [ media_type |-> <<97, 112, 112, 108, 105, 99, 97, 116, 105, 111, 110, 47, 120, 45, 97, 114, 99, 104, 105, 118, 101>>,
    extension |-> <<97, 114>>,
    signatures |-> <<
      [ parts |-> <<
          [ offset |-> 0, value |-> <<33, 60, 97, 114, 99, 104, 62>> ] >> ] >> ]

\* media_type: "application/x-blender"  extension: "blend"
sig_blend ==
  [ media_type |-> <<97, 112, 112, 108, 105, 99, 97, 116, 105, 111, 110, 47, 120, 45, 98, 108, 101, 110, 100, 101, 114>>,
    extension |-> <<98, 108, 101, 110, 100>>,
    signatures |-> <<
      [ parts |-> <<
          [ offset |-> 0, value |-> <<66, 76, 69, 78, 68, 69, 82>> ] >> ] >> ]

\* media_type: "audio/x-m4a"  extension: "m4a"
sig_m4a ==
  [ media_type |-> <<97, 117, 100, 105, 111, 47, 120, 45, 109, 52, 97>>,
    extension |-> <<109, 52, 97>>,
    signatures |-> <<
      [ parts |-> <<
          [ offset |-> 4, value |-> <<102, 116, 121, 112, 77, 52, 65>> ] >> ] >> ]

\* media_type: "image/jp2"  extension: "jp2"
sig_jp2 ==
  [ media_type |-> <<105, 109, 97, 103, 101, 47, 106, 112, 50>>,
    extension |-> <<106, 112, 50>>,
    signatures |-> <<
      [ parts |-> <<
          [ offset |-> 16, value |-> <<102, 116, 121, 112, 106, 112, 50>> ] >> ] >> ]

\* media_type: "video/3gpp"  extension: "3gp"
sig_3gp ==
  [ media_type |-> <<118, 105, 100, 101, 111, 47, 51, 103, 112, 112>>,
    extension |-> <<51, 103, 112>>,
    signatures |-> <<
      [ parts |-> <<
          [ offset |-> 4, value |-> <<102, 116, 121, 112, 51, 103, 112>> ] >> ] >> ]

\* media_type: "video/3gpp2"  extension: "3g2"
sig_3g2 ==
  [ media_type |-> <<118, 105, 100, 101, 111, 47, 51, 103, 112, 112, 50>>,
    extension |-> <<51, 103, 50>>,
    signatures |-> <<
      [ parts |-> <<
          [ offset |-> 4, value |-> <<102, 116, 121, 112, 51, 103, 50>> ] >> ] >> ]

\* media_type: "video/x-m4v"  extension: "m4v"
sig_m4v ==
  [ media_type |-> <<118, 105, 100, 101, 111, 47, 120, 45, 109, 52, 118>>,
    extension |-> <<109, 52, 118>>,
    signatures |-> <<
      [ parts |-> <<
          [ offset |-> 4, value |-> <<102, 116, 121, 112, 77, 52, 86>> ] >> ] >> ]

\* media_type: "application/x-7z-compressed"  extension: "7z"
sig_7z ==
  [ media_type |-> <<97, 112, 112, 108, 105, 99, 97, 116, 105, 111, 110, 47, 120, 45, 55, 122, 45, 99, 111, 109, 112, 114, 101, 115, 115, 101, 100>>,
    extension |-> <<55, 122>>,
    signatures |-> <<
      [ parts |-> <<
          [ offset |-> 0, value |-> <<55, 122, 188, 175, 39, 28>> ] >> ] >> ]

\* media_type: "application/x-xz"  extension: "xz"
sig_xz ==
  [ media_type |-> <<97, 112, 112, 108, 105, 99, 97, 116, 105, 111, 110, 47, 120, 45, 120, 122>>,
    extension |-> <<120, 122>>,
    signatures |-> <<
      [ parts |-> <<
          [ offset |-> 0, value |-> <<253, 55, 122, 88, 90, 0>> ] >> ] >> ]

\* sig_gif with the pattern of its second alternative left empty.
sig_gif_EmptyPattern ==
  [ media_type |-> <<105, 109, 97, 103, 101, 47, 103, 105, 102>>,
    extension |-> <<103, 105, 102>>,
    signatures |-> <<
      [ parts |-> <<
          [ offset |-> 0, value |-> <<71, 73, 70, 56, 55, 97>> ] >> ],
      [ parts |-> <<
          [ offset |-> 0, value |-> <<>> ] >> ] >> ]

\* media_type: "image/gif"  extension: "gif"
sig_gif ==
  [ media_type |-> <<105, 109, 97, 103, 101, 47, 103, 105, 102>>,
    extension |-> <<103, 105, 102>>,
    signatures |-> <<
      [ parts |-> <<
          [ offset |-> 0, value |-> <<71, 73, 70, 56, 55, 97>> ] >> ],
      [ parts |-> <<
          [ offset |-> 0, value |-> <<71, 73, 70, 56, 57, 97>> ] >> ] >> ]

\* media_type: "application/pdf"  extension: "pdf"
sig_pdf ==
  [ media_type |-> <<97, 112, 112, 108, 105, 99, 97, 116, 105, 111, 110, 47, 112, 100, 102>>,
    extension |-> <<112, 100, 102>>,
    signatures |-> <<
      [ parts |-> <<
          [ offset |-> 0, value |-> <<37, 80, 68, 70, 45>> ] >> ] >> ]

\* media_type: "application/vnd.ms-fontobject"  extension: "eot"
sig_eot ==
  [ media_type |-> <<97, 112, 112, 108, 105, 99, 97, 116, 105, 111, 110, 47, 118, 110, 100, 46, 109, 115, 45, 102, 111, 110, 116, 111, 98, 106, 101, 99, 116>>,
    extension |-> <<101, 111, 116>>,
    signatures |-> <<
      [ parts |-> <<
          [ offset |-> 8, value |-> <<0, 0, 1>> ],
          [ offset |-> 34, value |-> <<76, 80>> ] >> ],
      [ parts |-> <<
          [ offset |-> 8, value |-> <<1, 0, 2>> ],
          [ offset |-> 34, value |-> <<76, 80>> ] >> ],
      [ parts |-> <<
          [ offset |-> 8, value |-> <<2, 0, 2>> ],
          [ offset |-> 34, value |-> <<76, 80>> ] >> ] >> ]

\* sig_iso with the offset of its last alternative one byte further on.
sig_iso_Beyond ==
  [ media_type |-> <<97, 112, 112, 108, 105, 99, 97, 116, 105, 111, 110, 47, 120, 45, 105, 115, 111, 57, 54, 54, 48, 45, 105, 109, 97, 103, 101>>,
    extension |-> <<105, 115, 111>>,
    signatures |-> <<
      [ parts |-> <<
          [ offset |-> 32769, value |-> <<67, 68, 48, 48, 49>> ] >> ],
      [ parts |-> <<
          [ offset |-> 34817, value |-> <<67, 68, 48, 48, 49>> ] >> ],
      [ parts |-> <<
          [ offset |-> 36866, value |-> <<67, 68, 48, 48, 49>> ] >> ] >> ]

\* media_type: "application/x-iso9660-image"  extension: "iso"
sig_iso ==
  [ media_type |-> <<97, 112, 112, 108, 105, 99, 97, 116, 105, 111, 110, 47, 120, 45, 105, 115, 111, 57, 54, 54, 48, 45, 105, 109, 97, 103, 101>>,
    extension |-> <<105, 115, 111>>,
    signatures |-> <<
      [ parts |-> <<
          [ offset |-> 32769, value |-> <<67, 68, 48, 48, 49>> ] >> ],
      [ parts |-> <<
          [ offset |-> 34817, value |-> <<67, 68, 48, 48, 49>> ] >> ],
      [ parts |-> <<
          [ offset |-> 36865, value |-> <<67, 68, 48, 48, 49>> ] >> ] >> ]

\* media_type: "audio/amr"  extension: "amr"
sig_amr ==
  [ media_type |-> <<97, 117, 100, 105, 111, 47, 97, 109, 114>>,
    extension |-> <<97, 109, 114>>,
    signatures |-> <<
      [ parts |-> <<
          [ offset |-> 0, value |-> <<35, 33, 65, 77, 82>> ] >> ] >> ]

\* media_type: "font/otf"  extension: "otf"
sig_otf ==
  [ media_type |-> <<102, 111, 110, 116, 47, 111, 116, 102>>,
    extension |-> <<111, 116, 102>>,
    signatures |-> <<
      [ parts |-> <<
          [ offset |-> 0, value |-> <<79, 84, 84, 79, 0>> ] >> ] >> ]

\* sig_ttf with the 01 of its signature mistyped as 00.
sig_ttf_Zeros ==
  [ media_type |-> <<102, 111, 110, 116, 47, 116, 116, 102>>,
    extension |-> <<116, 116, 102>>,
    signatures |-> <<
      [ parts |-> <<
          [ offset |-> 0, value |-> <<0, 0, 0, 0, 0>> ] >> ] >> ]

\* media_type: "font/ttf"  extension: "ttf"
sig_ttf ==
  [ media_type |-> <<102, 111, 110, 116, 47, 116, 116, 102>>,
    extension |-> <<116, 116, 102>>,
    signatures |-> <<
      [ parts |-> <<
          [ offset |-> 0, value |-> <<0, 1, 0, 0, 0>> ] >> ] >> ]

\* media_type: "application/dicom"  extension: "dcm"
sig_dcm ==
  [ media_type |-> <<97, 112, 112, 108, 105, 99, 97, 116, 105, 111, 110, 47, 100, 105, 99, 111, 109>>,
    extension |-> <<100, 99, 109>>,
    signatures |-> <<
      [ parts |-> <<
          [ offset |-> 128, value |-> <<68, 73, 67, 77>> ] >> ] >> ]

\* media_type: "application/java-vm"  extension: "class"
sig_class ==
  [ media_type |-> <<97, 112, 112, 108, 105, 99, 97, 116, 105, 111, 110, 47, 106, 97, 118, 97, 45, 118, 109>>,
    extension |-> <<99, 108, 97, 115, 115>>,
    signatures |-> <<
      [ parts |-> <<
          [ offset |-> 0, value |-> <<202, 254, 186, 190>> ] >> ] >> ]

\* media_type: "application/ogg"  extension: "ogx"
sig_ogx ==
  [ media_type |-> <<97, 112, 112, 108, 105, 99, 97, 116, 105, 111, 110, 47, 111, 103, 103>>,
    extension |-> <<111, 103, 120>>,
    signatures |-> <<
      [ parts |-> <<
          [ offset |-> 0, value |-> <<79, 103, 103, 83>> ] >> ] >> ]

\* media_type: "application/vnd.android.dex"  extension: "dex"
sig_dex ==
  [ media_type |-> <<97, 112, 112, 108, 105, 99, 97, 116, 105, 111, 110, 47, 118, 110, 100, 46, 97, 110, 100, 114, 111, 105, 100, 46, 100, 101, 120>>,
    extension |-> <<100, 101, 120>>,
    signatures |-> <<
      [ parts |-> <<
          [ offset |-> 0, value |-> <<100, 101, 120, 10>> ] >> ] >> ]

\* media_type: "application/vnd.ms-cab-compressed"  extension: "cab"
sig_cab ==
  [ media_type |-> <<97, 112, 112, 108, 105, 99, 97, 116, 105, 111, 110, 47, 118, 110, 100, 46, 109, 115, 45, 99, 97, 98, 45, 99, 111, 109, 112, 114, 101, 115, 115, 101, 100>>,
    extension |-> <<99, 97, 98>>,
    signatures |-> <<
      [ parts |-> <<
          [ offset |-> 0, value |-> <<77, 83, 67, 70>> ] >> ],
      [ parts |-> <<
          [ offset |-> 0, value |-> <<73, 83, 99, 40>> ] >> ] >> ]

\* media_type: "application/vnd.tcpdump.pcap"  extension: "pcap"
sig_pcap ==
  [ media_type |-> <<97, 112, 112, 108, 105, 99, 97, 116, 105, 111, 110, 47, 118, 110, 100, 46, 116, 99, 112, 100, 117, 109, 112, 46, 112, 99, 97, 112>>,
    extension |-> <<112, 99, 97, 112>>,
    signatures |-> <<
      [ parts |-> <<
          [ offset |-> 0, value |-> <<161, 178, 195, 212>> ] >> ],
      [ parts |-> <<
          [ offset |-> 0, value |-> <<212, 195, 178, 161>> ] >> ] >> ]

\* media_type: "application/wasm"  extension: "wasm"
sig_wasm ==
  [ media_type |-> <<97, 112, 112, 108, 105, 99, 97, 116, 105, 111, 110, 47, 119, 97, 115, 109>>,
    extension |-> <<119, 97, 115, 109>>,
    signatures |-> <<
      [ parts |-> <<
          [ offset |-> 0, value |-> <<0, 97, 115, 109>> ] >> ] >> ]

\* media_type: "application/x-esri-shape"  extension: "shp"
sig_shp ==
  [ media_type |-> <<97, 112, 112, 108, 105, 99, 97, 116, 105, 111, 110, 47, 120, 45, 101, 115, 114, 105, 45, 115, 104, 97, 112, 101>>,
    extension |-> <<115, 104, 112>>,
    signatures |-> <<
      [ parts |-> <<
          [ offset |-> 0, value |-> <<0, 0, 39, 10>> ] >> ] >> ]

\* media_type: "application/x-executable"  extension: "elf"
sig_elf ==
  [ media_type |-> <<97, 112, 112, 108, 105, 99, 97, 116, 105, 111, 110, 47, 120, 45, 101, 120, 101, 99, 117, 116, 97, 98, 108, 101>>,
    extension |-> <<101, 108, 102>>,
    signatures |-> <<
      [ parts |-> <<
          [ offset |-> 0, value |-> <<127, 69, 76, 70>> ] >> ] >> ]

\* media_type: "application/x-google-chrome-extension"  extension: "crx"
sig_crx ==
  [ media_type |-> <<97, 112, 112, 108, 105, 99, 97, 116, 105, 111, 110, 47, 120, 45, 103, 111, 111, 103, 108, 101, 45, 99, 104, 114, 111, 109, 101, 45, 101, 120, 116, 101, 110, 115, 105, 111, 110>>,
    extension |-> <<99, 114, 120>>,
    signatures |-> <<
      [ parts |-> <<
          [ offset |-> 0, value |-> <<67, 114, 50, 52>> ] >> ] >> ]

\* media_type: "application/x-lrzip"  extension: "lrz"
sig_lrz ==
  [ media_type |-> <<97, 112, 112, 108, 105, 99, 97, 116, 105, 111, 110, 47, 120, 45, 108, 114, 122, 105, 112>>,
    extension |-> <<108, 114, 122>>,
    signatures |-> <<
      [ parts |-> <<
          [ offset |-> 0, value |-> <<76, 82, 90, 73>> ] >> ] >> ]

\* media_type: "application/x-lz4"  extension: "lz4"
sig_lz4 ==
  [ media_type |-> <<97, 112, 112, 108, 105, 99, 97, 116, 105, 111, 110, 47, 120, 45, 108, 122, 52>>,
    extension |-> <<108, 122, 52>>,
    signatures |-> <<
      [ parts |-> <<
          [ offset |-> 0, value |-> <<4, 34, 77, 24>> ] >> ] >> ]

\* media_type: "application/x-lzip"  extension: "lz"
sig_lz ==
  [ media_type |-> <<97, 112, 112, 108, 105, 99, 97, 116, 105, 111, 110, 47, 120, 45, 108, 122, 105, 112>>,
    extension |-> <<108, 122>>,
    signatures |-> <<
      [ parts |-> <<
          [ offset |-> 0, value |-> <<76, 90, 73, 80>> ] >> ] >> ]

\* media_type: "application/x-nintendo-nes-rom"  extension: "nes"
sig_nes ==
  [ media_type |-> <<97, 112, 112, 108, 105, 99, 97, 116, 105, 111, 110, 47, 120, 45, 110, 105, 110, 116, 101, 110, 100, 111, 45, 110, 101, 115, 45, 114, 111, 109>>,
    extension |-> <<110, 101, 115>>,
    signatures |-> <<
      [ parts |-> <<
          [ offset |-> 0, value |-> <<78, 69, 83, 26>> ] >> ] >> ]

\* media_type: "application/x-pcapng"  extension: "pcapng"
sig_pcapng ==
  [ media_type |-> <<97, 112, 112, 108, 105, 99, 97, 116, 105, 111, 110, 47, 120, 45, 112, 99, 97, 112, 110, 103>>,
    extension |-> <<112, 99, 97, 112, 110, 103>>,
    signatures |-> <<
      [ parts |-> <<
          [ offset |-> 0, value |-> <<10, 13, 13, 10>> ] >> ] >> ]

\* media_type: "application/x-rpm"  extension: "rpm"
sig_rpm ==
  [ media_type |-> <<97, 112, 112, 108, 105, 99, 97, 116, 105, 111, 110, 47, 120, 45, 114, 112, 109>>,
    extension |-> <<114, 112, 109>>,
    signatures |-> <<
      [ parts |-> <<
          [ offset |-> 0, value |-> <<237, 171, 238, 219>> ] >> ] >> ]

\* media_type: "application/x-xar"  extension: "xar"
sig_xar ==
  [ media_type |-> <<97, 112, 112, 108, 105, 99, 97, 116, 105, 111, 110, 47, 120, 45, 120, 97, 114>>,
    extension |-> <<120, 97, 114>>,
    signatures |-> <<
      [ parts |-> <<
          [ offset |-> 0, value |-> <<120, 97, 114, 33>> ] >> ] >> ]

\* media_type: "application/zip"  extension: "zip"
sig_zip ==
  [ media_type |-> <<97, 112, 112, 108, 105, 99, 97, 116, 105, 111, 110, 47, 122, 105, 112>>,
    extension |-> <<122, 105, 112>>,
    signatures |-> <<
      [ parts |-> <<
          [ offset |-> 0, value |-> <<80, 75, 3, 4>> ] >> ],
      [ parts |-> <<
          [ offset |-> 0, value |-> <<80, 75, 5, 6>> ] >> ],
      [ parts |-> <<
          [ offset |-> 0, value |-> <<80, 75, 7, 8>> ] >> ] >> ]

\* media_type: "application/zstd"  extension: "zst"
sig_zst ==
  [ media_type |-> <<97, 112, 112, 108, 105, 99, 97, 116, 105, 111, 110, 47, 122, 115, 116, 100>>,
    extension |-> <<122, 115, 116>>,
    signatures |-> <<
      [ parts |-> <<
          [ offset |-> 0, value |-> <<40, 181, 47, 253>> ] >> ] >> ]

\* media_type: "audio/basic"  extension: "au"
sig_au ==
  [ media_type |-> <<97, 117, 100, 105, 111, 47, 98, 97, 115, 105, 99>>,
    extension |-> <<97, 117>>,
    signatures |-> <<
      [ parts |-> <<
          [ offset |-> 0, value |-> <<46, 115, 110, 100>> ] >> ] >> ]

\* media_type: "audio/midi"  extension: "mid"
sig_mid ==
  [ media_type |-> <<97, 117, 100, 105, 111, 47, 109, 105, 100, 105>>,
    extension |-> <<109, 105, 100>>,
    signatures |-> <<
      [ parts |-> <<
          [ offset |-> 0, value |-> <<77, 84, 104, 100>> ] >> ] >> ]

\* media_type: "audio/wavpack"  extension: "wv"
sig_wv ==
  [ media_type |-> <<97, 117, 100, 105, 111, 47, 119, 97, 118, 112, 97, 99, 107>>,
    extension |-> <<119, 118>>,
    signatures |-> <<
      [ parts |-> <<
          [ offset |-> 0, value |-> <<119, 118, 112, 107>> ] >> ] >> ]

\* media_type: "audio/x-ape"  extension: "ape"
sig_ape ==
  [ media_type |-> <<97, 117, 100, 105, 111, 47, 120, 45, 97, 112, 101>>,
    extension |-> <<97, 112, 101>>,
    signatures |-> <<
      [ parts |-> <<
          [ offset |-> 0, value |-> <<77, 65, 67, 32>> ] >> ] >> ]

\* media_type: "audio/x-flac"  extension: "flac"
sig_flac ==
  [ media_type |-> <<97, 117, 100, 105, 111, 47, 120, 45, 102, 108, 97, 99>>,
    extension |-> <<102, 108, 97, 99>>,
    signatures |-> <<
      [ parts |-> <<
          [ offset |-> 0, value |-> <<102, 76, 97, 67>> ] >> ] >> ]

\* media_type: "audio/x-musepack"  extension: "mpc"
sig_mpc ==
  [ media_type |-> <<97, 117, 100, 105, 111, 47, 120, 45, 109, 117, 115, 101, 112, 97, 99, 107>>,
    extension |-> <<109, 112, 99>>,
    signatures |-> <<
      [ parts |-> <<
          [ offset |-> 0, value |-> <<77, 80, 67, 75>> ] >> ],
      [ parts |-> <<
          [ offset |-> 0, value |-> <<77, 80, 43>> ] >> ] >> ]

\* media_type: "font/woff"  extension: "woff"
sig_woff ==
  [ media_type |-> <<102, 111, 110, 116, 47, 119, 111, 102, 102>>,
    extension |-> <<119, 111, 102, 102>>,
    signatures |-> <<
      [ parts |-> <<
          [ offset |-> 0, value |-> <<119, 79, 70, 70>> ] >> ] >> ]

\* media_type: "font/woff2"  extension: "woff2"
sig_woff2 ==
  [ media_type |-> <<102, 111, 110, 116, 47, 119, 111, 102, 102, 50>>,
    extension |-> <<119, 111, 102, 102, 50>>,
    signatures |-> <<
      [ parts |-> <<
          [ offset |-> 0, value |-> <<119, 79, 70, 50>> ] >> ] >> ]

\* media_type: "image/bpg"  extension: "bpg"
sig_bpg ==
  [ media_type |-> <<105, 109, 97, 103, 101, 47, 98, 112, 103>>,
    extension |-> <<98, 112, 103>>,
    signatures |-> <<
      [ parts |-> <<
          [ offset |-> 0, value |-> <<66, 80, 71, 251>> ] >> ] >> ]

\* media_type: "image/cineon"  extension: "cin"
sig_cin ==
  [ media_type |-> <<105, 109, 97, 103, 101, 47, 99, 105, 110, 101, 111, 110>>,
    extension |-> <<99, 105, 110>>,
    signatures |-> <<
      [ parts |-> <<
          [ offset |-> 0, value |-> <<128, 42, 95, 215>> ] >> ] >> ]

\* media_type: "image/flif"  extension: "flif"
sig_flif ==
  [ media_type |-> <<105, 109, 97, 103, 101, 47, 102, 108, 105, 102>>,
    extension |-> <<102, 108, 105, 102>>,
    signatures |-> <<
      [ parts |-> <<
          [ offset |-> 0, value |-> <<70, 76, 73, 70>> ] >> ] >> ]

\* media_type: "image/icns"  extension: "icns"
sig_icns ==
  [ media_type |-> <<105, 109, 97, 103, 101, 47, 105, 99, 110, 115>>,
    extension |-> <<105, 99, 110, 115>>,
    signatures |-> <<
      [ parts |-> <<
          [ offset |-> 0, value |-> <<105, 99, 110, 115>> ] >> ] >> ]

\* media_type: "image/tiff"  extension: "tiff"
sig_tiff ==
  [ media_type |-> <<105, 109, 97, 103, 101, 47, 116, 105, 102, 102>>,
    extension |-> <<116, 105, 102, 102>>,
    signatures |-> <<
      [ parts |-> <<
          [ offset |-> 0, value |-> <<77, 77, 0, 42>> ] >> ],
      [ parts |-> <<
          [ offset |-> 0, value |-> <<73, 73, 42, 0>> ] >> ] >> ]

\* media_type: "image/vnd.adobe.photoshop"  extension: "psd"
sig_psd ==
  [ media_type |-> <<105, 109, 97, 103, 101, 47, 118, 110, 100, 46, 97, 100, 111, 98, 101, 46, 112, 104, 111, 116, 111, 115, 104, 111, 112>>,
    extension |-> <<112, 115, 100>>,
    signatures |-> <<
      [ parts |-> <<
          [ offset |-> 0, value |-> <<56, 66, 80, 83>> ] >> ] >> ]

\* media_type: "image/wmf"  extension: "wmf"
sig_wmf ==
  [ media_type |-> <<105, 109, 97, 103, 101, 47, 119, 109, 102>>,
    extension |-> <<119, 109, 102>>,
    signatures |-> <<
      [ parts |-> <<
          [ offset |-> 0, value |-> <<215, 205, 198, 154>> ] >> ],
      [ parts |-> <<
          [ offset |-> 0, value |-> <<2, 0, 9, 0>> ] >> ],
      [ parts |-> <<
          [ offset |-> 0, value |-> <<1, 0, 9, 0>> ] >> ] >> ]

\* media_type: "image/x-dpx"  extension: "dpx"
sig_dpx ==
  [ media_type |-> <<105, 109, 97, 103, 101, 47, 120, 45, 100, 112, 120>>,
    extension |-> <<100, 112, 120>>,
    signatures |-> <<
      [ parts |-> <<
          [ offset |-> 0, value |-> <<83, 68, 80, 88>> ] >> ],
      [ parts |-> <<
          [ offset |-> 0, value |-> <<88, 80, 68, 83>> ] >> ] >> ]

\* media_type: "image/x-exr"  extension: "exr"
sig_exr ==
  [ media_type |-> <<105, 109, 97, 103, 101, 47, 120, 45, 101, 120, 114>>,
    extension |-> <<101, 120, 114>>,
    signatures |-> <<
      [ parts |-> <<
          [ offset |-> 0, value |-> <<118, 47, 49, 1>> ] >> ] >> ]

\* media_type: "image/x-icon"  extension: "ico"
sig_ico ==
  [ media_type |-> <<105, 109, 97, 103, 101, 47, 120, 45, 105, 99, 111, 110>>,
    extension |-> <<105, 99, 111>>,
    signatures |-> <<
      [ parts |-> <<
          [ offset |-> 0, value |-> <<0, 0, 1, 0>> ] >> ] >> ]

\* media_type: "model/gltf-binary"  extension: "glb"
sig_glb ==
  [ media_type |-> <<109, 111, 100, 101, 108, 47, 103, 108, 116, 102, 45, 98, 105, 110, 97, 114, 121>>,
    extension |-> <<103, 108, 98>>,
    signatures |-> <<
      [ parts |-> <<
          [ offset |-> 0, value |-> <<103, 108, 84, 70>> ] >> ] >> ]

\* media_type: "video/mpeg"  extension: "mpg"
sig_mpg ==
  [ media_type |-> <<118, 105, 100, 101, 111, 47, 109, 112, 101, 103>>,
    extension |-> <<109, 112, 103>>,
    signatures |-> <<
      [ parts |-> <<
          [ offset |-> 0, value |-> <<0, 0, 1, 186>> ] >> ],
      [ parts |-> <<
          [ offset |-> 0, value |-> <<0, 0, 1, 179>> ] >> ] >> ]

\* media_type: "video/x-flv"  extension: "flv"
sig_flv ==
  [ media_type |-> <<118, 105, 100, 101, 111, 47, 120, 45, 102, 108, 118>>,
    extension |-> <<102, 108, 118>>,
    signatures |-> <<
      [ parts |-> <<
          [ offset |-> 0, value |-> <<70, 76, 86, 1>> ] >> ] >> ]

\* media_type: "application/x-bzip2"  extension: "bz2"
sig_bz2 ==
  [ media_type |-> <<97, 112, 112, 108, 105, 99, 97, 116, 105, 111, 110, 47, 120, 45, 98, 122, 105, 112, 50>>,
    extension |-> <<98, 122, 50>>,
    signatures |-> <<
      [ parts |-> <<
          [ offset |-> 0, value |-> <<66, 90, 104>> ] >> ] >> ]

\* media_type: "application/x-shockwave-flash"  extension: "swf"
sig_swf ==
  [ media_type |-> <<97, 112, 112, 108, 105, 99, 97, 116, 105, 111, 110, 47, 120, 45, 115, 104, 111, 99, 107, 119, 97, 118, 101, 45, 102, 108, 97, 115, 104>>,
    extension |-> <<115, 119, 102>>,
    signatures |-> <<
      [ parts |-> <<
          [ offset |-> 0, value |-> <<67, 87, 83>> ] >> ],
      [ parts |-> <<
          [ offset |-> 0, value |-> <<70, 87, 83>> ] >> ] >> ]

\* media_type: "audio/mpeg"  extension: "mp3"
sig_mp3 ==
  [ media_type |-> <<97, 117, 100, 105, 111, 47, 109, 112, 101, 103>>,
    extension |-> <<109, 112, 51>>,
    signatures |-> <<
      [ parts |-> <<
          [ offset |-> 0, value |-> <<73, 68, 51>> ] >> ] >> ]

\* media_type: "image/jxr"  extension: "jxr"
sig_jxr ==
  [ media_type |-> <<105, 109, 97, 103, 101, 47, 106, 120, 114>>,
    extension |-> <<106, 120, 114>>,
    signatures |-> <<
      [ parts |-> <<
          [ offset |-> 0, value |-> <<73, 73, 188>> ] >> ] >> ]

\* media_type: "application/gzip"  extension: "gz"
sig_gz ==
  [ media_type |-> <<97, 112, 112, 108, 105, 99, 97, 116, 105, 111, 110, 47, 103, 122, 105, 112>>,
    extension |-> <<103, 122>>,
    signatures |-> <<
      [ parts |-> <<
          [ offset |-> 0, value |-> <<31, 139>> ] >> ] >> ]

\* media_type: "application/x-apple-diskimage"  extension: "dmg"
sig_dmg ==
  [ media_type |-> <<97, 112, 112, 108, 105, 99, 97, 116, 105, 111, 110, 47, 120, 45, 97, 112, 112, 108, 101, 45, 100, 105, 115, 107, 105, 109, 97, 103, 101>>,
    extension |-> <<100, 109, 103>>,
    signatures |-> <<
      [ parts |-> <<
          [ offset |-> 0, value |-> <<120, 1>> ] >> ] >> ]

\* media_type: "application/x-compress"  extension: "Z"
sig_Z ==
  [ media_type |-> <<97, 112, 112, 108, 105, 99, 97, 116, 105, 111, 110, 47, 120, 45, 99, 111, 109, 112, 114, 101, 115, 115>>,
    extension |-> <<90>>,
    signatures |-> <<
      [ parts |-> <<
          [ offset |-> 0, value |-> <<31, 160>> ] >> ],
      [ parts |-> <<
          [ offset |-> 0, value |-> <<31, 157>> ] >> ] >> ]

\* sig_exe with its extension in upper case.
sig_exe_UpperCase ==
  [ media_type |-> <<97, 112, 112, 108, 105, 99, 97, 116, 105, 111, 110, 47, 120, 45, 109, 115, 100, 111, 119, 110, 108, 111, 97, 100>>,
    extension |-> <<69, 88, 69>>,
    signatures |-> <<
      [ parts |-> <<
          [ offset |-> 0, value |-> <<77, 90>> ] >> ] >> ]

\* media_type: "application/x-msdownload"  extension: "exe"
sig_exe ==
  [ media_type |-> <<97, 112, 112, 108, 105, 99, 97, 116, 105, 111, 110, 47, 120, 45, 109, 115, 100, 111, 119, 110, 108, 111, 97, 100>>,
    extension |-> <<101, 120, 101>>,
    signatures |-> <<
      [ parts |-> <<
          [ offset |-> 0, value |-> <<77, 90>> ] >> ] >> ]

\* media_type: "audio/aac"  extension: "aac"
sig_aac ==
  [ media_type |-> <<97, 117, 100, 105, 111, 47, 97, 97, 99>>,
    extension |-> <<97, 97, 99>>,
    signatures |-> <<
      [ parts |-> <<
          [ offset |-> 0, value |-> <<255, 241>> ] >> ],
      [ parts |-> <<
          [ offset |-> 0, value |-> <<255, 249>> ] >> ] >> ]

\* media_type: "audio/vnd.dolby.dd-raw"  extension: "ac3"
sig_ac3 ==
  [ media_type |-> <<97, 117, 100, 105, 111, 47, 118, 110, 100, 46, 100, 111, 108, 98, 121, 46, 100, 100, 45, 114, 97, 119>>,
    extension |-> <<97, 99, 51>>,
    signatures |-> <<
      [ parts |-> <<
          [ offset |-> 0, value |-> <<11, 119>> ] >> ] >> ]

\* sig_bmp with the media type and extension of arbitrary binary data.
sig_bmp_OctetStream ==
  [ media_type |-> <<97, 112, 112, 108, 105, 99, 97, 116, 105, 111, 110, 47, 111, 99, 116, 101, 116, 45, 115, 116, 114, 101, 97, 109>>,
    extension |-> <<98, 105, 110>>,
    signatures |-> <<
      [ parts |-> <<
          [ offset |-> 0, value |-> <<66, 77>> ] >> ] >> ]

\* media_type: "image/bmp"  extension: "bmp"
sig_bmp ==
  [ media_type |-> <<105, 109, 97, 103, 101, 47, 98, 109, 112>>,
    extension |-> <<98, 109, 112>>,
    signatures |-> <<
      [ parts |-> <<
          [ offset |-> 0, value |-> <<66, 77>> ] >> ] >> ]

\* sig_m2ts with the sync byte at offset 0 as its whole signature.
sig_m2ts_SyncOnly ==
  [ media_type |-> <<118, 105, 100, 101, 111, 47, 109, 112, 50, 116>>,
    extension |-> <<109, 50, 116, 115>>,
    signatures |-> <<
      [ parts |-> <<
          [ offset |-> 0, value |-> <<71>> ] >> ] >> ]

\* media_type: "video/mp2t"  extension: "m2ts"
sig_m2ts ==
  [ media_type |-> <<118, 105, 100, 101, 111, 47, 109, 112, 50, 116>>,
    extension |-> <<109, 50, 116, 115>>,
    signatures |-> <<
      [ parts |-> <<
          [ offset |-> 0, value |-> <<71>> ],
          [ offset |-> 188, value |-> <<71>> ] >> ],
      [ parts |-> <<
          [ offset |-> 4, value |-> <<71>> ],
          [ offset |-> 196, value |-> <<71>> ] >> ] >> ]

\* The table with the png rule and the apng rule in each other's place.
signatures_PngFirst ==
  << sig_odp, sig_ods, sig_odg, sig_odt, sig_vdi, sig_epub,
     sig_skp, sig_deb, sig_sqlite, sig_indd, sig_mxf, sig_opus,
     sig_png, sig_jpg, sig_jxl, sig_ktx, sig_ktx2, sig_mkv,
     sig_ogg, sig_fits, sig_ogv, sig_mov, sig_wmv, sig_gbc,
     sig_lzo, sig_spx, sig_orf, sig_ogm, sig_rar, sig_gb,
     sig_gba, sig_mobi, sig_lnk, sig_z64, sig_nds, sig_msi,
     sig_tar, sig_aif, sig_oga, sig_wav, sig_avif, sig_heic,
     sig_apng, sig_webp, sig_xcf, sig_avi, sig_mp4, sig_webm,
     sig_ar, sig_blend, sig_m4a, sig_jp2, sig_3gp, sig_3g2,
     sig_m4v, sig_7z, sig_xz, sig_gif, sig_pdf, sig_eot,
     sig_iso, sig_amr, sig_otf, sig_ttf, sig_dcm, sig_class,
     sig_ogx, sig_dex, sig_cab, sig_pcap, sig_wasm, sig_shp,
     sig_elf, sig_crx, sig_lrz, sig_lz4, sig_lz, sig_nes,
     sig_pcapng, sig_rpm, sig_xar, sig_zip, sig_zst, sig_au,
     sig_mid, sig_wv, sig_ape, sig_flac, sig_mpc, sig_woff,
     sig_woff2, sig_bpg, sig_cin, sig_flif, sig_icns, sig_tiff,
     sig_psd, sig_wmf, sig_dpx, sig_exr, sig_ico, sig_glb,
     sig_mpg, sig_flv, sig_bz2, sig_swf, sig_mp3, sig_jxr,
     sig_gz, sig_dmg, sig_Z, sig_exe, sig_aac, sig_ac3,
     sig_bmp, sig_m2ts >>

\* The table with the zip rule moved to its head.
signatures_ZipFirst ==
  << sig_zip, sig_odp, sig_ods, sig_odg, sig_odt, sig_vdi,
     sig_epub, sig_skp, sig_deb, sig_sqlite, sig_indd, sig_mxf,
     sig_opus, sig_apng, sig_jpg, sig_jxl, sig_ktx, sig_ktx2,
     sig_mkv, sig_ogg, sig_fits, sig_ogv, sig_mov, sig_wmv,
     sig_gbc, sig_lzo, sig_spx, sig_orf, sig_ogm, sig_rar,
     sig_gb, sig_gba, sig_mobi, sig_lnk, sig_z64, sig_nds,
     sig_msi, sig_tar, sig_aif, sig_oga, sig_wav, sig_avif,
     sig_heic, sig_png, sig_webp, sig_xcf, sig_avi, sig_mp4,
     sig_webm, sig_ar, sig_blend, sig_m4a, sig_jp2, sig_3gp,
     sig_3g2, sig_m4v, sig_7z, sig_xz, sig_gif, sig_pdf,
     sig_eot, sig_iso, sig_amr, sig_otf, sig_ttf, sig_dcm,
     sig_class, sig_ogx, sig_dex, sig_cab, sig_pcap, sig_wasm,
     sig_shp, sig_elf, sig_crx, sig_lrz, sig_lz4, sig_lz,
     sig_nes, sig_pcapng, sig_rpm, sig_xar, sig_zst, sig_au,
     sig_mid, sig_wv, sig_ape, sig_flac, sig_mpc, sig_woff,
     sig_woff2, sig_bpg, sig_cin, sig_flif, sig_icns, sig_tiff,
     sig_psd, sig_wmf, sig_dpx, sig_exr, sig_ico, sig_glb,
     sig_mpg, sig_flv, sig_bz2, sig_swf, sig_mp3, sig_jxr,
     sig_gz, sig_dmg, sig_Z, sig_exe, sig_aac, sig_ac3,
     sig_bmp, sig_m2ts >>

\* The table listed from its last rule to its first.
signatures_Reversed ==
  << sig_m2ts, sig_bmp, sig_ac3, sig_aac, sig_exe, sig_Z,
     sig_dmg, sig_gz, sig_jxr, sig_mp3, sig_swf, sig_bz2,
     sig_flv, sig_mpg, sig_glb, sig_ico, sig_exr, sig_dpx,
     sig_wmf, sig_psd, sig_tiff, sig_icns, sig_flif, sig_cin,
     sig_bpg, sig_woff2, sig_woff, sig_mpc, sig_flac, sig_ape,
     sig_wv, sig_mid, sig_au, sig_zst, sig_zip, sig_xar,
     sig_rpm, sig_pcapng, sig_nes, sig_lz, sig_lz4, sig_lrz,
     sig_crx, sig_elf, sig_shp, sig_wasm, sig_pcap, sig_cab,
     sig_dex, sig_ogx, sig_class, sig_dcm, sig_ttf, sig_otf,
     sig_amr, sig_iso, sig_eot, sig_pdf, sig_gif, sig_xz,
     sig_7z, sig_m4v, sig_3g2, sig_3gp, sig_jp2, sig_m4a,
     sig_blend, sig_ar, sig_webm, sig_mp4, sig_avi, sig_xcf,
     sig_webp, sig_png, sig_heic, sig_avif, sig_wav, sig_oga,
     sig_aif, sig_tar, sig_msi, sig_nds, sig_z64, sig_lnk,
     sig_mobi, sig_gba, sig_gb, sig_rar, sig_ogm, sig_orf,
     sig_spx, sig_lzo, sig_gbc, sig_wmv, sig_mov, sig_ogv,
     sig_fits, sig_ogg, sig_mkv, sig_ktx2, sig_ktx, sig_jxl,
     sig_jpg, sig_apng, sig_opus, sig_mxf, sig_indd, sig_sqlite,
     sig_deb, sig_skp, sig_epub, sig_vdi, sig_odt, sig_odg,
     sig_ods, sig_odp >>

\* The rules in the order the macro expands them (declaration order).
signatures ==
  << sig_odp, sig_ods, sig_odg, sig_odt, sig_vdi, sig_epub,
     sig_skp, sig_deb, sig_sqlite, sig_indd, sig_mxf, sig_opus,
     sig_apng, sig_jpg, sig_jxl, sig_ktx, sig_ktx2, sig_mkv,
     sig_ogg, sig_fits, sig_ogv, sig_mov, sig_wmv, sig_gbc,
     sig_lzo, sig_spx, sig_orf, sig_ogm, sig_rar, sig_gb,
     sig_gba, sig_mobi, sig_lnk, sig_z64, sig_nds, sig_msi,
     sig_tar, sig_aif, sig_oga, sig_wav, sig_avif, sig_heic,
     sig_png, sig_webp, sig_xcf, sig_avi, sig_mp4, sig_webm,
     sig_ar, sig_blend, sig_m4a, sig_jp2, sig_3gp, sig_3g2,
     sig_m4v, sig_7z, sig_xz, sig_gif, sig_pdf, sig_eot,
     sig_iso, sig_amr, sig_otf, sig_ttf, sig_dcm, sig_class,
     sig_ogx, sig_dex, sig_cab, sig_pcap, sig_wasm, sig_shp,
     sig_elf, sig_crx, sig_lrz, sig_lz4, sig_lz, sig_nes,
     sig_pcapng, sig_rpm, sig_xar, sig_zip, sig_zst, sig_au,
     sig_mid, sig_wv, sig_ape, sig_flac, sig_mpc, sig_woff,
     sig_woff2, sig_bpg, sig_cin, sig_flif, sig_icns, sig_tiff,
     sig_psd, sig_wmf, sig_dpx, sig_exr, sig_ico, sig_glb,
     sig_mpg, sig_flv, sig_bz2, sig_swf, sig_mp3, sig_jxr,
     sig_gz, sig_dmg, sig_Z, sig_exe, sig_aac, sig_ac3,
     sig_bmp, sig_m2ts >>

\* ---------------------------------------------------------------------------
\* The formats! catalog of formats.rs: the (media_type, extension) of each entry.
\* ---------------------------------------------------------------------------
formats ==
  {
     \* AdaptiveMultiRate: "audio/amr", "amr"
     [ media_type |-> <<97, 117, 100, 105, 111, 47, 97, 109, 114>>,
       extension |-> <<97, 109, 114>> ],
     \* AdobeFlashPlayerAudio: "audio/mp4", "f4a"
     [ media_type |-> <<97, 117, 100, 105, 111, 47, 109, 112, 52>>,
       extension |-> <<102, 52, 97>> ],
     \* AdobeFlashPlayerAudiobook: "audio/mp4", "f4b"
     [ media_type |-> <<97, 117, 100, 105, 111, 47, 109, 112, 52>>,
       extension |-> <<102, 52, 98>> ],
     \* AdobeFlashPlayerProtectedVideo: "video/mp4", "f4p"
     [ media_type |-> <<118, 105, 100, 101, 111, 47, 109, 112, 52>>,
       extension |-> <<102, 52, 112>> ],
     \* AdobeFlashPlayerVideo: "video/mp4", "f4v"
     [ media_type |-> <<118, 105, 100, 101, 111, 47, 109, 112, 52>>,
       extension |-> <<102, 52, 118>> ],
     \* AdobeIllustratorArtwork: "application/vnd.adobe.illustrator", "ai"
     [ media_type |-> <<97, 112, 112, 108, 105, 99, 97, 116, 105, 111, 110, 47, 118, 110, 100, 46, 97, 100, 111, 98, 101, 46, 105, 108, 108, 117, 115, 116, 114, 97, 116, 111, 114>>,
       extension |-> <<97, 105>> ],
     \* AdobeIndesignDocument: "application/x-indesign", "indd"
     [ media_type |-> <<97, 112, 112, 108, 105, 99, 97, 116, 105, 111, 110, 47, 120, 45, 105, 110, 100, 101, 115, 105, 103, 110>>,
       extension |-> <<105, 110, 100, 100>> ],
     \* AdobePhotoshopDocument: "image/vnd.adobe.photoshop", "psd"
     [ media_type |-> <<105, 109, 97, 103, 101, 47, 118, 110, 100, 46, 97, 100, 111, 98, 101, 46, 112, 104, 111, 116, 111, 115, 104, 111, 112>>,
       extension |-> <<112, 115, 100>> ],
     \* AdvancedAudioCoding: "audio/aac", "aac"
     [ media_type |-> <<97, 117, 100, 105, 111, 47, 97, 97, 99>>,
       extension |-> <<97, 97, 99>> ],
     \* Alz: "application/x-alz-compressed", "alz"
     [ media_type |-> <<97, 112, 112, 108, 105, 99, 97, 116, 105, 111, 110, 47, 120, 45, 97, 108, 122, 45, 99, 111, 109, 112, 114, 101, 115, 115, 101, 100>>,
       extension |-> <<97, 108, 122>> ],
     \* AndroidBinaryXml: "application/vnd.android.axml", "xml"
     [ media_type |-> <<97, 112, 112, 108, 105, 99, 97, 116, 105, 111, 110, 47, 118, 110, 100, 46, 97, 110, 100, 114, 111, 105, 100, 46, 97, 120, 109, 108>>,
       extension |-> <<120, 109, 108>> ],
     \* AndroidCompiledResources: "application/vnd.android.arsc", "arsc"
     [ media_type |-> <<97, 112, 112, 108, 105, 99, 97, 116, 105, 111, 110, 47, 118, 110, 100, 46, 97, 110, 100, 114, 111, 105, 100, 46, 97, 114, 115, 99>>,
       extension |-> <<97, 114, 115, 99>> ],
     \* AndroidPackage: "application/vnd.android.package-archive", "apk"
     [ media_type |-> <<97, 112, 112, 108, 105, 99, 97, 116, 105, 111, 110, 47, 118, 110, 100, 46, 97, 110, 100, 114, 111, 105, 100, 46, 112, 97, 99, 107, 97, 103, 101, 45, 97, 114, 99, 104, 105, 118, 101>>,
       extension |-> <<97, 112, 107>> ],
     \* AnimatedPortableNetworkGraphics: "image/apng", "apng"
     [ media_type |-> <<105, 109, 97, 103, 101, 47, 97, 112, 110, 103>>,
       extension |-> <<97, 112, 110, 103>> ],
     \* ApacheArrowColumnar: "application/x-apache-arrow", "arrow"
     [ media_type |-> <<97, 112, 112, 108, 105, 99, 97, 116, 105, 111, 110, 47, 120, 45, 97, 112, 97, 99, 104, 101, 45, 97, 114, 114, 111, 119>>,
       extension |-> <<97, 114, 114, 111, 119>> ],
     \* ApacheAvroObjectContainer: "application/vnd.apache.avro", "avro"
     [ media_type |-> <<97, 112, 112, 108, 105, 99, 97, 116, 105, 111, 110, 47, 118, 110, 100, 46, 97, 112, 97, 99, 104, 101, 46, 97, 118, 114, 111>>,
       extension |-> <<97, 118, 114, 111>> ],
     \* ApacheParquet: "application/x-parquet", "parquet"
     [ media_type |-> <<97, 112, 112, 108, 105, 99, 97, 116, 105, 111, 110, 47, 120, 45, 112, 97, 114, 113, 117, 101, 116>>,
       extension |-> <<112, 97, 114, 113, 117, 101, 116>> ],
     \* AppleDiskImage: "application/x-apple-diskimage", "dmg"
     [ media_type |-> <<97, 112, 112, 108, 105, 99, 97, 116, 105, 111, 110, 47, 120, 45, 97, 112, 112, 108, 101, 45, 100, 105, 115, 107, 105, 109, 97, 103, 101>>,
       extension |-> <<100, 109, 103>> ],
     \* AppleIconImage: "image/x-icns", "icns"
     [ media_type |-> <<105, 109, 97, 103, 101, 47, 120, 45, 105, 99, 110, 115>>,
       extension |-> <<105, 99, 110, 115>> ],
     \* AppleItunesAudio: "audio/x-m4a", "m4a"
     [ media_type |-> <<97, 117, 100, 105, 111, 47, 120, 45, 109, 52, 97>>,
       extension |-> <<109, 52, 97>> ],
     \* AppleItunesAudiobook: "audio/mp4", "m4b"
     [ media_type |-> <<97, 117, 100, 105, 111, 47, 109, 112, 52>>,
       extension |-> <<109, 52, 98>> ],
     \* AppleItunesProtectedAudio: "audio/mp4", "m4p"
     [ media_type |-> <<97, 117, 100, 105, 111, 47, 109, 112, 52>>,
       extension |-> <<109, 52, 112>> ],
     \* AppleItunesVideo: "video/x-m4v", "m4v"
     [ media_type |-> <<118, 105, 100, 101, 111, 47, 120, 45, 109, 52, 118>>,
       extension |-> <<109, 52, 118>> ],
     \* AppleQuicktime: "video/quicktime", "mov"
     [ media_type |-> <<118, 105, 100, 101, 111, 47, 113, 117, 105, 99, 107, 116, 105, 109, 101>>,
       extension |-> <<109, 111, 118>> ],
     \* ArbitraryBinaryData: "application/octet-stream", "bin"
     [ media_type |-> <<97, 112, 112, 108, 105, 99, 97, 116, 105, 111, 110, 47, 111, 99, 116, 101, 116, 45, 115, 116, 114, 101, 97, 109>>,
       extension |-> <<98, 105, 110>> ],
     \* ArchivedByRobertJung: "application/x-arj", "arj"
     [ media_type |-> <<97, 112, 112, 108, 105, 99, 97, 116, 105, 111, 110, 47, 120, 45, 97, 114, 106>>,
       extension |-> <<97, 114, 106>> ],
     \* Au: "audio/basic", "au"
     [ media_type |-> <<97, 117, 100, 105, 111, 47, 98, 97, 115, 105, 99>>,
       extension |-> <<97, 117>> ],
     \* AudioCodec3: "audio/vnd.dolby.dd-raw", "ac3"
     [ media_type |-> <<97, 117, 100, 105, 111, 47, 118, 110, 100, 46, 100, 111, 108, 98, 121, 46, 100, 100, 45, 114, 97, 119>>,
       extension |-> <<97, 99, 51>> ],
     \* AudioInterchangeFileFormat: "audio/aiff", "aiff"
     [ media_type |-> <<97, 117, 100, 105, 111, 47, 97, 105, 102, 102>>,
       extension |-> <<97, 105, 102, 102>> ],
     \* AudioVideoInterleave: "video/avi", "avi"
     [ media_type |-> <<118, 105, 100, 101, 111, 47, 97, 118, 105>>,
       extension |-> <<97, 118, 105>> ],
     \* AutocadDrawing: "image/vnd.dwg", "dwg"
     [ media_type |-> <<105, 109, 97, 103, 101, 47, 118, 110, 100, 46, 100, 119, 103>>,
       extension |-> <<100, 119, 103>> ],
     \* Av1ImageFileFormat: "image/avif", "avif"
     [ media_type |-> <<105, 109, 97, 103, 101, 47, 97, 118, 105, 102>>,
       extension |-> <<97, 118, 105, 102>> ],
     \* Av1ImageFileFormatSequence: "image/avif-sequence", "avifs"
     [ media_type |-> <<105, 109, 97, 103, 101, 47, 97, 118, 105, 102, 45, 115, 101, 113, 117, 101, 110, 99, 101>>,
       extension |-> <<97, 118, 105, 102, 115>> ],
     \* BetterPortableGraphics: "image/bpg", "bpg"
     [ media_type |-> <<105, 109, 97, 103, 101, 47, 98, 112, 103>>,
       extension |-> <<98, 112, 103>> ],
     \* BittorrentFile: "application/x-bittorrent", "torrent"
     [ media_type |-> <<97, 112, 112, 108, 105, 99, 97, 116, 105, 111, 110, 47, 120, 45, 98, 105, 116, 116, 111, 114, 114, 101, 110, 116>>,
       extension |-> <<116, 111, 114, 114, 101, 110, 116>> ],
     \* Blender: "application/x-blender", "blend"
     [ media_type |-> <<97, 112, 112, 108, 105, 99, 97, 116, 105, 111, 110, 47, 120, 45, 98, 108, 101, 110, 100, 101, 114>>,
       extension |-> <<98, 108, 101, 110, 100>> ],
     \* Bzip2: "application/x-bzip2", "bz2"
     [ media_type |-> <<97, 112, 112, 108, 105, 99, 97, 116, 105, 111, 110, 47, 120, 45, 98, 122, 105, 112, 50>>,
       extension |-> <<98, 122, 50>> ],
     \* Cabinet: "application/vnd.ms-cab-compressed", "cab"
     [ media_type |-> <<97, 112, 112, 108, 105, 99, 97, 116, 105, 111, 110, 47, 118, 110, 100, 46, 109, 115, 45, 99, 97, 98, 45, 99, 111, 109, 112, 114, 101, 115, 115, 101, 100>>,
       extension |-> <<99, 97, 98>> ],
     \* CanonRaw2: "image/x-canon-cr2", "cr2"
     [ media_type |-> <<105, 109, 97, 103, 101, 47, 120, 45, 99, 97, 110, 111, 110, 45, 99, 114, 50>>,
       extension |-> <<99, 114, 50>> ],
     \* CanonRaw3: "image/x-canon-cr3", "cr3"
     [ media_type |-> <<105, 109, 97, 103, 101, 47, 120, 45, 99, 97, 110, 111, 110, 45, 99, 114, 51>>,
       extension |-> <<99, 114, 51>> ],
     \* Cineon: "image/cineon", "cin"
     [ media_type |-> <<105, 109, 97, 103, 101, 47, 99, 105, 110, 101, 111, 110>>,
       extension |-> <<99, 105, 110>> ],
     \* CircuitDiagramDocument: "application/vnd.circuitdiagram.document.main+xml", "cddx"
     [ media_type |-> <<97, 112, 112, 108, 105, 99, 97, 116, 105, 111, 110, 47, 118, 110, 100, 46, 99, 105, 114, 99, 117, 105, 116, 100, 105, 97, 103, 114, 97, 109, 46, 100, 111, 99, 117, 109, 101, 110, 116, 46, 109, 97, 105, 110, 43, 120, 109, 108>>,
       extension |-> <<99, 100, 100, 120>> ],
     \* ClojureScript: "text/x-clojure", "clj"
     [ media_type |-> <<116, 101, 120, 116, 47, 120, 45, 99, 108, 111, 106, 117, 114, 101>>,
       extension |-> <<99, 108, 106>> ],
     \* CommonObjectFileFormat: "application/x-coff", "coff"
     [ media_type |-> <<97, 112, 112, 108, 105, 99, 97, 116, 105, 111, 110, 47, 120, 45, 99, 111, 102, 102>>,
       extension |-> <<99, 111, 102, 102>> ],
     \* CompoundFileBinary: "application/x-cfb", "cfb"
     [ media_type |-> <<97, 112, 112, 108, 105, 99, 97, 116, 105, 111, 110, 47, 120, 45, 99, 102, 98>>,
       extension |-> <<99, 102, 98>> ],
     \* Cpio: "application/x-cpio", "cpio"
     [ media_type |-> <<97, 112, 112, 108, 105, 99, 97, 116, 105, 111, 110, 47, 120, 45, 99, 112, 105, 111>>,
       extension |-> <<99, 112, 105, 111>> ],
     \* CreativeVoice: "audio/x-voc", "voc"
     [ media_type |-> <<97, 117, 100, 105, 111, 47, 120, 45, 118, 111, 99>>,
       extension |-> <<118, 111, 99>> ],
     \* DalvikExecutable: "application/vnd.android.dex", "dex"
     [ media_type |-> <<97, 112, 112, 108, 105, 99, 97, 116, 105, 111, 110, 47, 118, 110, 100, 46, 97, 110, 100, 114, 111, 105, 100, 46, 100, 101, 120>>,
       extension |-> <<100, 101, 120>> ],
     \* DebianBinaryPackage: "application/vnd.debian.binary-package", "deb"
     [ media_type |-> <<97, 112, 112, 108, 105, 99, 97, 116, 105, 111, 110, 47, 118, 110, 100, 46, 100, 101, 98, 105, 97, 110, 46, 98, 105, 110, 97, 114, 121, 45, 112, 97, 99, 107, 97, 103, 101>>,
       extension |-> <<100, 101, 98>> ],
     \* DerCertificate: "application/x-x509-ca-cert", "der"
     [ media_type |-> <<97, 112, 112, 108, 105, 99, 97, 116, 105, 111, 110, 47, 120, 45, 120, 53, 48, 57, 45, 99, 97, 45, 99, 101, 114, 116>>,
       extension |-> <<100, 101, 114>> ],
     \* DesignWebFormatXps: "model/vnd.dwfx+xps", "dwfx"
     [ media_type |-> <<109, 111, 100, 101, 108, 47, 118, 110, 100, 46, 100, 119, 102, 120, 43, 120, 112, 115>>,
       extension |-> <<100, 119, 102, 120>> ],
     \* DigitalImagingAndCommunicationsInMedicine: "application/dicom", "dcm"
     [ media_type |-> <<97, 112, 112, 108, 105, 99, 97, 116, 105, 111, 110, 47, 100, 105, 99, 111, 109>>,
       extension |-> <<100, 99, 109>> ],
     \* DigitalPictureExchange: "image/x-dpx", "dpx"
     [ media_type |-> <<105, 109, 97, 103, 101, 47, 120, 45, 100, 112, 120>>,
       extension |-> <<100, 112, 120>> ],
     \* Djvu: "image/vnd.djvu", "djvu"
     [ media_type |-> <<105, 109, 97, 103, 101, 47, 118, 110, 100, 46, 100, 106, 118, 117>>,
       extension |-> <<100, 106, 118, 117>> ],
     \* Drawio: "application/vnd.jgraph.mxfile", "drawio"
     [ media_type |-> <<97, 112, 112, 108, 105, 99, 97, 116, 105, 111, 110, 47, 118, 110, 100, 46, 106, 103, 114, 97, 112, 104, 46, 109, 120, 102, 105, 108, 101>>,
       extension |-> <<100, 114, 97, 119, 105, 111>> ],
     \* DynamicLinkLibrary: "application/vnd.microsoft.portable-executable", "dll"
     [ media_type |-> <<97, 112, 112, 108, 105, 99, 97, 116, 105, 111, 110, 47, 118, 110, 100, 46, 109, 105, 99, 114, 111, 115, 111, 102, 116, 46, 112, 111, 114, 116, 97, 98, 108, 101, 45, 101, 120, 101, 99, 117, 116, 97, 98, 108, 101>>,
       extension |-> <<100, 108, 108>> ],
     \* ElectronicPublication: "application/epub+zip", "epub"
     [ media_type |-> <<97, 112, 112, 108, 105, 99, 97, 116, 105, 111, 110, 47, 101, 112, 117, 98, 43, 122, 105, 112>>,
       extension |-> <<101, 112, 117, 98>> ],
     \* EmbeddedOpentype: "application/vnd.ms-fontobject", "eot"
     [ media_type |-> <<97, 112, 112, 108, 105, 99, 97, 116, 105, 111, 110, 47, 118, 110, 100, 46, 109, 115, 45, 102, 111, 110, 116, 111, 98, 106, 101, 99, 116>>,
       extension |-> <<101, 111, 116>> ],
     \* EncapsulatedPostscript: "application/eps", "eps"
     [ media_type |-> <<97, 112, 112, 108, 105, 99, 97, 116, 105, 111, 110, 47, 101, 112, 115>>,
       extension |-> <<101, 112, 115>> ],
     \* EnterpriseApplicationArchive: "application/java-archive", "ear"
     [ media_type |-> <<97, 112, 112, 108, 105, 99, 97, 116, 105, 111, 110, 47, 106, 97, 118, 97, 45, 97, 114, 99, 104, 105, 118, 101>>,
       extension |-> <<101, 97, 114>> ],
     \* ExecutableAndLinkableFormat: "application/x-executable", "elf"
     [ media_type |-> <<97, 112, 112, 108, 105, 99, 97, 116, 105, 111, 110, 47, 120, 45, 101, 120, 101, 99, 117, 116, 97, 98, 108, 101>>,
       extension |-> <<101, 108, 102>> ],
     \* ExperimentalComputingFacility: "image/x-xcf", "xcf"
     [ media_type |-> <<105, 109, 97, 103, 101, 47, 120, 45, 120, 99, 102>>,
       extension |-> <<120, 99, 102>> ],
     \* Extensible3DGraphics: "model/x3d+xml", "x3d"
     [ media_type |-> <<109, 111, 100, 101, 108, 47, 120, 51, 100, 43, 120, 109, 108>>,
       extension |-> <<120, 51, 100>> ],
     \* ExtensibleArchive: "application/x-xar", "xar"
     [ media_type |-> <<97, 112, 112, 108, 105, 99, 97, 116, 105, 111, 110, 47, 120, 45, 120, 97, 114>>,
       extension |-> <<120, 97, 114>> ],
     \* ExtensibleMarkupLanguage: "text/xml", "xml"
     [ media_type |-> <<116, 101, 120, 116, 47, 120, 109, 108>>,
       extension |-> <<120, 109, 108>> ],
     \* ExtensibleStylesheetLanguageTransformations: "application/xslt+xml", "xsl"
     [ media_type |-> <<97, 112, 112, 108, 105, 99, 97, 116, 105, 111, 110, 47, 120, 115, 108, 116, 43, 120, 109, 108>>,
       extension |-> <<120, 115, 108>> ],
     \* FastTracker2ExtendedModule: "audio/x-xm", "xm"
     [ media_type |-> <<97, 117, 100, 105, 111, 47, 120, 45, 120, 109>>,
       extension |-> <<120, 109>> ],
     \* FlashVideo: "video/x-flv", "flv"
     [ media_type |-> <<118, 105, 100, 101, 111, 47, 120, 45, 102, 108, 118>>,
       extension |-> <<102, 108, 118>> ],
     \* FlexibleImageTransportSystem: "image/fits", "fits"
     [ media_type |-> <<105, 109, 97, 103, 101, 47, 102, 105, 116, 115>>,
       extension |-> <<102, 105, 116, 115>> ],
     \* FreeLosslessAudioCodec: "audio/x-flac", "flac"
     [ media_type |-> <<97, 117, 100, 105, 111, 47, 120, 45, 102, 108, 97, 99>>,
       extension |-> <<102, 108, 97, 99>> ],
     \* FreeLosslessImageFormat: "image/flif", "flif"
     [ media_type |-> <<105, 109, 97, 103, 101, 47, 102, 108, 105, 102>>,
       extension |-> <<102, 108, 105, 102>> ],
     \* FujifilmRaw: "image/x-fuji-raf", "raf"
     [ media_type |-> <<105, 109, 97, 103, 101, 47, 120, 45, 102, 117, 106, 105, 45, 114, 97, 102>>,
       extension |-> <<114, 97, 102>> ],
     \* GameBoyAdvanceRom: "application/x-gba-rom", "gba"
     [ media_type |-> <<97, 112, 112, 108, 105, 99, 97, 116, 105, 111, 110, 47, 120, 45, 103, 98, 97, 45, 114, 111, 109>>,
       extension |-> <<103, 98, 97>> ],
     \* GameBoyColorRom: "application/x-gameboy-color-rom", "gbc"
     [ media_type |-> <<97, 112, 112, 108, 105, 99, 97, 116, 105, 111, 110, 47, 120, 45, 103, 97, 109, 101, 98, 111, 121, 45, 99, 111, 108, 111, 114, 45, 114, 111, 109>>,
       extension |-> <<103, 98, 99>> ],
     \* GameBoyRom: "application/x-gameboy-rom", "gb"
     [ media_type |-> <<97, 112, 112, 108, 105, 99, 97, 116, 105, 111, 110, 47, 120, 45, 103, 97, 109, 101, 98, 111, 121, 45, 114, 111, 109>>,
       extension |-> <<103, 98>> ],
     \* GeographyMarkupLanguage: "application/gml+xml", "gml"
     [ media_type |-> <<97, 112, 112, 108, 105, 99, 97, 116, 105, 111, 110, 47, 103, 109, 108, 43, 120, 109, 108>>,
       extension |-> <<103, 109, 108>> ],
     \* GlTransmissionFormatBinary: "model/gltf-binary", "glb"
     [ media_type |-> <<109, 111, 100, 101, 108, 47, 103, 108, 116, 102, 45, 98, 105, 110, 97, 114, 121>>,
       extension |-> <<103, 108, 98>> ],
     \* GoogleChromeExtension: "application/x-google-chrome-extension", "crx"
     [ media_type |-> <<97, 112, 112, 108, 105, 99, 97, 116, 105, 111, 110, 47, 120, 45, 103, 111, 111, 103, 108, 101, 45, 99, 104, 114, 111, 109, 101, 45, 101, 120, 116, 101, 110, 115, 105, 111, 110>>,
       extension |-> <<99, 114, 120>> ],
     \* GoogleDraco: "model/x-draco", "drc"
     [ media_type |-> <<109, 111, 100, 101, 108, 47, 120, 45, 100, 114, 97, 99, 111>>,
       extension |-> <<100, 114, 99>> ],
     \* GpsExchangeFormat: "application/gpx+xml", "gpx"
     [ media_type |-> <<97, 112, 112, 108, 105, 99, 97, 116, 105, 111, 110, 47, 103, 112, 120, 43, 120, 109, 108>>,
       extension |-> <<103, 112, 120>> ],
     \* GraphicsInterchangeFormat: "image/gif", "gif"
     [ media_type |-> <<105, 109, 97, 103, 101, 47, 103, 105, 102>>,
       extension |-> <<103, 105, 102>> ],
     \* Gzip: "application/gzip", "gz"
     [ media_type |-> <<97, 112, 112, 108, 105, 99, 97, 116, 105, 111, 110, 47, 103, 122, 105, 112>>,
       extension |-> <<103, 122>> ],
     \* HighEfficiencyImageCoding: "image/heic", "heic"
     [ media_type |-> <<105, 109, 97, 103, 101, 47, 104, 101, 105, 99>>,
       extension |-> <<104, 101, 105, 99>> ],
     \* HighEfficiencyImageCodingSequence: "image/heic-sequence", "heics"
     [ media_type |-> <<105, 109, 97, 103, 101, 47, 104, 101, 105, 99, 45, 115, 101, 113, 117, 101, 110, 99, 101>>,
       extension |-> <<104, 101, 105, 99, 115>> ],
     \* HighEfficiencyImageFileFormat: "image/heif", "heif"
     [ media_type |-> <<105, 109, 97, 103, 101, 47, 104, 101, 105, 102>>,
       extension |-> <<104, 101, 105, 102>> ],
     \* HighEfficiencyImageFileFormatSequence: "image/heif-sequence", "heifs"
     [ media_type |-> <<105, 109, 97, 103, 101, 47, 104, 101, 105, 102, 45, 115, 101, 113, 117, 101, 110, 99, 101>>,
       extension |-> <<104, 101, 105, 102, 115>> ],
     \* HypertextMarkupLanguage: "text/html", "html"
     [ media_type |-> <<116, 101, 120, 116, 47, 104, 116, 109, 108>>,
       extension |-> <<104, 116, 109, 108>> ],
     \* Icalendar: "text/calendar", "ics"
     [ media_type |-> <<116, 101, 120, 116, 47, 99, 97, 108, 101, 110, 100, 97, 114>>,
       extension |-> <<105, 99, 115>> ],
     \* IccProfile: "application/vnd.iccprofile", "icc"
     [ media_type |-> <<97, 112, 112, 108, 105, 99, 97, 116, 105, 111, 110, 47, 118, 110, 100, 46, 105, 99, 99, 112, 114, 111, 102, 105, 108, 101>>,
       extension |-> <<105, 99, 99>> ],
     \* ImpulseTrackerModule: "audio/x-it", "it"
     [ media_type |-> <<97, 117, 100, 105, 111, 47, 120, 45, 105, 116>>,
       extension |-> <<105, 116>> ],
     \* IndesignMarkupLanguage: "application/vnd.adobe.indesign-idml-package", "idml"
     [ media_type |-> <<97, 112, 112, 108, 105, 99, 97, 116, 105, 111, 110, 47, 118, 110, 100, 46, 97, 100, 111, 98, 101, 46, 105, 110, 100, 101, 115, 105, 103, 110, 45, 105, 100, 109, 108, 45, 112, 97, 99, 107, 97, 103, 101>>,
       extension |-> <<105, 100, 109, 108>> ],
     \* IosAppStorePackage: "application/x-ios-app", "ipa"
     [ media_type |-> <<97, 112, 112, 108, 105, 99, 97, 116, 105, 111, 110, 47, 120, 45, 105, 111, 115, 45, 97, 112, 112>>,
       extension |-> <<105, 112, 97>> ],
     \* Iso9660: "application/x-iso9660-image", "iso"
     [ media_type |-> <<97, 112, 112, 108, 105, 99, 97, 116, 105, 111, 110, 47, 120, 45, 105, 115, 111, 57, 54, 54, 48, 45, 105, 109, 97, 103, 101>>,
       extension |-> <<105, 115, 111>> ],
     \* JavaArchive: "application/java-archive", "jar"
     [ media_type |-> <<97, 112, 112, 108, 105, 99, 97, 116, 105, 111, 110, 47, 106, 97, 118, 97, 45, 97, 114, 99, 104, 105, 118, 101>>,
       extension |-> <<106, 97, 114>> ],
     \* JavaClass: "application/java-vm", "class"
     [ media_type |-> <<97, 112, 112, 108, 105, 99, 97, 116, 105, 111, 110, 47, 106, 97, 118, 97, 45, 118, 109>>,
       extension |-> <<99, 108, 97, 115, 115>> ],
     \* JavaKeystore: "application/x-java-keystore", "jks"
     [ media_type |-> <<97, 112, 112, 108, 105, 99, 97, 116, 105, 111, 110, 47, 120, 45, 106, 97, 118, 97, 45, 107, 101, 121, 115, 116, 111, 114, 101>>,
       extension |-> <<106, 107, 115>> ],
     \* JointPhotographicExpertsGroup: "image/jpeg", "jpg"
     [ media_type |-> <<105, 109, 97, 103, 101, 47, 106, 112, 101, 103>>,
       extension |-> <<106, 112, 103>> ],
     \* Jpeg2000Part1: "image/jp2", "jp2"
     [ media_type |-> <<105, 109, 97, 103, 101, 47, 106, 112, 50>>,
       extension |-> <<106, 112, 50>> ],
     \* Jpeg2000Part2: "image/jpx", "jpx"
     [ media_type |-> <<105, 109, 97, 103, 101, 47, 106, 112, 120>>,
       extension |-> <<106, 112, 120>> ],
     \* Jpeg2000Part3: "image/mj2", "mj2"
     [ media_type |-> <<105, 109, 97, 103, 101, 47, 109, 106, 50>>,
       extension |-> <<109, 106, 50>> ],
     \* Jpeg2000Part6: "image/jpm", "jpm"
     [ media_type |-> <<105, 109, 97, 103, 101, 47, 106, 112, 109>>,
       extension |-> <<106, 112, 109>> ],
     \* JpegExtendedRange: "image/jxr", "jxr"
     [ media_type |-> <<105, 109, 97, 103, 101, 47, 106, 120, 114>>,
       extension |-> <<106, 120, 114>> ],
     \* JpegLs: "image/jls", "jls"
     [ media_type |-> <<105, 109, 97, 103, 101, 47, 106, 108, 115>>,
       extension |-> <<106, 108, 115>> ],
     \* JpegXl: "image/jxl", "jxl"
     [ media_type |-> <<105, 109, 97, 103, 101, 47, 106, 120, 108>>,
       extension |-> <<106, 120, 108>> ],
     \* KeyholeMarkupLanguage: "application/vnd.google-earth.kml+xml", "kml"
     [ media_type |-> <<97, 112, 112, 108, 105, 99, 97, 116, 105, 111, 110, 47, 118, 110, 100, 46, 103, 111, 111, 103, 108, 101, 45, 101, 97, 114, 116, 104, 46, 107, 109, 108, 43, 120, 109, 108>>,
       extension |-> <<107, 109, 108>> ],
     \* KeyholeMarkupLanguageZipped: "application/vnd.google-earth.kmz", "kmz"
     [ media_type |-> <<97, 112, 112, 108, 105, 99, 97, 116, 105, 111, 110, 47, 118, 110, 100, 46, 103, 111, 111, 103, 108, 101, 45, 101, 97, 114, 116, 104, 46, 107, 109, 122>>,
       extension |-> <<107, 109, 122>> ],
     \* KhronosTexture: "image/ktx", "ktx"
     [ media_type |-> <<105, 109, 97, 103, 101, 47, 107, 116, 120>>,
       extension |-> <<107, 116, 120>> ],
     \* KhronosTexture2: "image/ktx2", "ktx2"
     [ media_type |-> <<105, 109, 97, 103, 101, 47, 107, 116, 120, 50>>,
       extension |-> <<107, 116, 120, 50>> ],
     \* Larc: "application/x-lzh-compressed", "lzs"
     [ media_type |-> <<97, 112, 112, 108, 105, 99, 97, 116, 105, 111, 110, 47, 120, 45, 108, 122, 104, 45, 99, 111, 109, 112, 114, 101, 115, 115, 101, 100>>,
       extension |-> <<108, 122, 115>> ],
     \* Latex: "text/x-tex", "tex"
     [ media_type |-> <<116, 101, 120, 116, 47, 120, 45, 116, 101, 120>>,
       extension |-> <<116, 101, 120>> ],
     \* LempelZivFiniteStateEntropy: "application/x-lzfse", "lzfse"
     [ media_type |-> <<97, 112, 112, 108, 105, 99, 97, 116, 105, 111, 110, 47, 120, 45, 108, 122, 102, 115, 101>>,
       extension |-> <<108, 122, 102, 115, 101>> ],
     \* Lha: "application/x-lzh-compressed", "lzh"
     [ media_type |-> <<97, 112, 112, 108, 105, 99, 97, 116, 105, 111, 110, 47, 120, 45, 108, 122, 104, 45, 99, 111, 109, 112, 114, 101, 115, 115, 101, 100>>,
       extension |-> <<108, 122, 104>> ],
     \* LlvmBitcode: "application/x-llvm", "bc"
     [ media_type |-> <<97, 112, 112, 108, 105, 99, 97, 116, 105, 111, 110, 47, 120, 45, 108, 108, 118, 109>>,
       extension |-> <<98, 99>> ],
     \* LongRangeZip: "application/x-lrzip", "lrz"
     [ media_type |-> <<97, 112, 112, 108, 105, 99, 97, 116, 105, 111, 110, 47, 120, 45, 108, 114, 122, 105, 112>>,
       extension |-> <<108, 114, 122>> ],
     \* LuaBytecode: "application/x-lua-bytecode", "luac"
     [ media_type |-> <<97, 112, 112, 108, 105, 99, 97, 116, 105, 111, 110, 47, 120, 45, 108, 117, 97, 45, 98, 121, 116, 101, 99, 111, 100, 101>>,
       extension |-> <<108, 117, 97, 99>> ],
     \* LuaScript: "text/x-lua", "lua"
     [ media_type |-> <<116, 101, 120, 116, 47, 120, 45, 108, 117, 97>>,
       extension |-> <<108, 117, 97>> ],
     \* Lz4: "application/x-lz4", "lz4"
     [ media_type |-> <<97, 112, 112, 108, 105, 99, 97, 116, 105, 111, 110, 47, 120, 45, 108, 122, 52>>,
       extension |-> <<108, 122, 52>> ],
     \* Lzip: "application/x-lzip", "lz"
     [ media_type |-> <<97, 112, 112, 108, 105, 99, 97, 116, 105, 111, 110, 47, 120, 45, 108, 122, 105, 112>>,
       extension |-> <<108, 122>> ],
     \* Lzop: "application/x-lzop", "lzo"
     [ media_type |-> <<97, 112, 112, 108, 105, 99, 97, 116, 105, 111, 110, 47, 120, 45, 108, 122, 111, 112>>,
       extension |-> <<108, 122, 111>> ],
     \* MachO: "application/x-mach-binary", "mach"
     [ media_type |-> <<97, 112, 112, 108, 105, 99, 97, 116, 105, 111, 110, 47, 120, 45, 109, 97, 99, 104, 45, 98, 105, 110, 97, 114, 121>>,
       extension |-> <<109, 97, 99, 104>> ],
     \* MacosAlias: "application/x-apple-alias", "alias"
     [ media_type |-> <<97, 112, 112, 108, 105, 99, 97, 116, 105, 111, 110, 47, 120, 45, 97, 112, 112, 108, 101, 45, 97, 108, 105, 97, 115>>,
       extension |-> <<97, 108, 105, 97, 115>> ],
     \* MaterialExchangeFormat: "application/mxf", "mxf"
     [ media_type |-> <<97, 112, 112, 108, 105, 99, 97, 116, 105, 111, 110, 47, 109, 120, 102>>,
       extension |-> <<109, 120, 102>> ],
     \* MatroskaVideo: "video/x-matroska", "mkv"
     [ media_type |-> <<118, 105, 100, 101, 111, 47, 120, 45, 109, 97, 116, 114, 111, 115, 107, 97>>,
       extension |-> <<109, 107, 118>> ],
     \* MetaInformationEncapsulation: "application/x-mie", "mie"
     [ media_type |-> <<97, 112, 112, 108, 105, 99, 97, 116, 105, 111, 110, 47, 120, 45, 109, 105, 101>>,
       extension |-> <<109, 105, 101>> ],
     \* MicrosoftAccess2007Database: "application/x-msaccess", "accdb"
     [ media_type |-> <<97, 112, 112, 108, 105, 99, 97, 116, 105, 111, 110, 47, 120, 45, 109, 115, 97, 99, 99, 101, 115, 115>>,
       extension |-> <<97, 99, 99, 100, 98>> ],
     \* MicrosoftAccessDatabase: "application/x-msaccess", "mdb"
     [ media_type |-> <<97, 112, 112, 108, 105, 99, 97, 116, 105, 111, 110, 47, 120, 45, 109, 115, 97, 99, 99, 101, 115, 115>>,
       extension |-> <<109, 100, 98>> ],
     \* MicrosoftCompiledHtmlHelp: "application/vnd.ms-htmlhelp", "chm"
     [ media_type |-> <<97, 112, 112, 108, 105, 99, 97, 116, 105, 111, 110, 47, 118, 110, 100, 46, 109, 115, 45, 104, 116, 109, 108, 104, 101, 108, 112>>,
       extension |-> <<99, 104, 109>> ],
     \* MicrosoftDirectDrawSurface: "image/vnd-ms.dds", "dds"
     [ media_type |-> <<105, 109, 97, 103, 101, 47, 118, 110, 100, 45, 109, 115, 46, 100, 100, 115>>,
       extension |-> <<100, 100, 115>> ],
     \* MicrosoftExcelSpreadsheet: "application/vnd.ms-excel", "xls"
     [ media_type |-> <<97, 112, 112, 108, 105, 99, 97, 116, 105, 111, 110, 47, 118, 110, 100, 46, 109, 115, 45, 101, 120, 99, 101, 108>>,
       extension |-> <<120, 108, 115>> ],
     \* MicrosoftPowerpointPresentation: "application/vnd.ms-powerpoint", "ppt"
     [ media_type |-> <<97, 112, 112, 108, 105, 99, 97, 116, 105, 111, 110, 47, 118, 110, 100, 46, 109, 115, 45, 112, 111, 119, 101, 114, 112, 111, 105, 110, 116>>,
       extension |-> <<112, 112, 116>> ],
     \* MicrosoftProjectPlan: "application/vnd.ms-project", "mpp"
     [ media_type |-> <<97, 112, 112, 108, 105, 99, 97, 116, 105, 111, 110, 47, 118, 110, 100, 46, 109, 115, 45, 112, 114, 111, 106, 101, 99, 116>>,
       extension |-> <<109, 112, 112>> ],
     \* MicrosoftPublisherDocument: "application/vnd.ms-publisher", "pub"
     [ media_type |-> <<97, 112, 112, 108, 105, 99, 97, 116, 105, 111, 110, 47, 118, 110, 100, 46, 109, 115, 45, 112, 117, 98, 108, 105, 115, 104, 101, 114>>,
       extension |-> <<112, 117, 98>> ],
     \* MicrosoftSoftwareInstaller: "application/x-msi", "msi"
     [ media_type |-> <<97, 112, 112, 108, 105, 99, 97, 116, 105, 111, 110, 47, 120, 45, 109, 115, 105>>,
       extension |-> <<109, 115, 105>> ],
     \* MicrosoftVirtualHardDisk: "application/x-vhd", "vhd"
     [ media_type |-> <<97, 112, 112, 108, 105, 99, 97, 116, 105, 111, 110, 47, 120, 45, 118, 104, 100>>,
       extension |-> <<118, 104, 100>> ],
     \* MicrosoftVirtualHardDisk2: "application/x-vhdx", "vhdx"
     [ media_type |-> <<97, 112, 112, 108, 105, 99, 97, 116, 105, 111, 110, 47, 120, 45, 118, 104, 100, 120>>,
       extension |-> <<118, 104, 100, 120>> ],
     \* MicrosoftVisioDrawing: "application/vnd.visio", "vsd"
     [ media_type |-> <<97, 112, 112, 108, 105, 99, 97, 116, 105, 111, 110, 47, 118, 110, 100, 46, 118, 105, 115, 105, 111>>,
       extension |-> <<118, 115, 100>> ],
     \* MicrosoftVisualStudioExtension: "application/vsix", "vsix"
     [ media_type |-> <<97, 112, 112, 108, 105, 99, 97, 116, 105, 111, 110, 47, 118, 115, 105, 120>>,
       extension |-> <<118, 115, 105, 120>> ],
     \* MicrosoftVisualStudioSolution: "application/vnd.ms-developer", "sln"
     [ media_type |-> <<97, 112, 112, 108, 105, 99, 97, 116, 105, 111, 110, 47, 118, 110, 100, 46, 109, 115, 45, 100, 101, 118, 101, 108, 111, 112, 101, 114>>,
       extension |-> <<115, 108, 110>> ],
     \* MicrosoftWordDocument: "application/msword", "doc"
     [ media_type |-> <<97, 112, 112, 108, 105, 99, 97, 116, 105, 111, 110, 47, 109, 115, 119, 111, 114, 100>>,
       extension |-> <<100, 111, 99>> ],
     \* Mobipocket: "application/x-mobipocket-ebook", "mobi"
     [ media_type |-> <<97, 112, 112, 108, 105, 99, 97, 116, 105, 111, 110, 47, 120, 45, 109, 111, 98, 105, 112, 111, 99, 107, 101, 116, 45, 101, 98, 111, 111, 107>>,
       extension |-> <<109, 111, 98, 105>> ],
     \* MonkeysAudio: "audio/x-ape", "ape"
     [ media_type |-> <<97, 117, 100, 105, 111, 47, 120, 45, 97, 112, 101>>,
       extension |-> <<97, 112, 101>> ],
     \* Mp3Url: "audio/x-mpegurl", "m3u"
     [ media_type |-> <<97, 117, 100, 105, 111, 47, 120, 45, 109, 112, 101, 103, 117, 114, 108>>,
       extension |-> <<109, 51, 117>> ],
     \* Mpeg12AudioLayer3: "audio/mpeg", "mp3"
     [ media_type |-> <<97, 117, 100, 105, 111, 47, 109, 112, 101, 103>>,
       extension |-> <<109, 112, 51>> ],
     \* Mpeg1AudioLayer1: "audio/mpeg", "mp1"
     [ media_type |-> <<97, 117, 100, 105, 111, 47, 109, 112, 101, 103>>,
       extension |-> <<109, 112, 49>> ],
     \* Mpeg1AudioLayer2: "audio/mpeg", "mp2"
     [ media_type |-> <<97, 117, 100, 105, 111, 47, 109, 112, 101, 103>>,
       extension |-> <<109, 112, 50>> ],
     \* Mpeg1Video: "video/mpeg", "mpg"
     [ media_type |-> <<118, 105, 100, 101, 111, 47, 109, 112, 101, 103>>,
       extension |-> <<109, 112, 103>> ],
     \* Mpeg2TransportStream: "video/mp2t", "mts"
     [ media_type |-> <<118, 105, 100, 101, 111, 47, 109, 112, 50, 116>>,
       extension |-> <<109, 116, 115>> ],
     \* Mpeg4Part14Video: "video/mp4", "mp4"
     [ media_type |-> <<118, 105, 100, 101, 111, 47, 109, 112, 52>>,
       extension |-> <<109, 112, 52>> ],
     \* MsDosExecutable: "application/x-dosexec", "exe"
     [ media_type |-> <<97, 112, 112, 108, 105, 99, 97, 116, 105, 111, 110, 47, 120, 45, 100, 111, 115, 101, 120, 101, 99>>,
       extension |-> <<101, 120, 101>> ],
     \* Musepack: "audio/x-musepack", "mpc"
     [ media_type |-> <<97, 117, 100, 105, 111, 47, 120, 45, 109, 117, 115, 101, 112, 97, 99, 107>>,
       extension |-> <<109, 112, 99>> ],
     \* MusicalInstrumentDigitalInterface: "audio/midi", "mid"
     [ media_type |-> <<97, 117, 100, 105, 111, 47, 109, 105, 100, 105>>,
       extension |-> <<109, 105, 100>> ],
     \* Musicxml: "application/vnd.recordare.musicxml+xml", "musicxml"
     [ media_type |-> <<97, 112, 112, 108, 105, 99, 97, 116, 105, 111, 110, 47, 118, 110, 100, 46, 114, 101, 99, 111, 114, 100, 97, 114, 101, 46, 109, 117, 115, 105, 99, 120, 109, 108, 43, 120, 109, 108>>,
       extension |-> <<109, 117, 115, 105, 99, 120, 109, 108>> ],
     \* MusicxmlZipped: "application/vnd.recordare.musicxml", "mxl"
     [ media_type |-> <<97, 112, 112, 108, 105, 99, 97, 116, 105, 111, 110, 47, 118, 110, 100, 46, 114, 101, 99, 111, 114, 100, 97, 114, 101, 46, 109, 117, 115, 105, 99, 120, 109, 108>>,
       extension |-> <<109, 120, 108>> ],
     \* NikonElectronicFile: "image/x-nikon-nef", "nef"
     [ media_type |-> <<105, 109, 97, 103, 101, 47, 120, 45, 110, 105, 107, 111, 110, 45, 110, 101, 102>>,
       extension |-> <<110, 101, 102>> ],
     \* Nintendo64Rom: "application/x-n64-rom", "z64"
     [ media_type |-> <<97, 112, 112, 108, 105, 99, 97, 116, 105, 111, 110, 47, 120, 45, 110, 54, 52, 45, 114, 111, 109>>,
       extension |-> <<122, 54, 52>> ],
     \* NintendoDsRom: "application/x-nintendo-ds-rom", "nds"
     [ media_type |-> <<97, 112, 112, 108, 105, 99, 97, 116, 105, 111, 110, 47, 120, 45, 110, 105, 110, 116, 101, 110, 100, 111, 45, 100, 115, 45, 114, 111, 109>>,
       extension |-> <<110, 100, 115>> ],
     \* NintendoEntertainmentSystemRom: "application/x-nintendo-nes-rom", "nes"
     [ media_type |-> <<97, 112, 112, 108, 105, 99, 97, 116, 105, 111, 110, 47, 120, 45, 110, 105, 110, 116, 101, 110, 100, 111, 45, 110, 101, 115, 45, 114, 111, 109>>,
       extension |-> <<110, 101, 115>> ],
     \* OfficeOpenXmlDocument: "application/vnd.openxmlformats-officedocument.wordprocessingml.document", "docx"
     [ media_type |-> <<97, 112, 112, 108, 105, 99, 97, 116, 105, 111, 110, 47, 118, 110, 100, 46, 111, 112, 101, 110, 120, 109, 108, 102, 111, 114, 109, 97, 116, 115, 45, 111, 102, 102, 105, 99, 101, 100, 111, 99, 117, 109, 101, 110, 116, 46, 119, 111, 114, 100, 112, 114, 111, 99, 101, 115, 115, 105, 110, 103, 109, 108, 46, 100, 111, 99, 117, 109, 101, 110, 116>>,
       extension |-> <<100, 111, 99, 120>> ],
     \* OfficeOpenXmlDrawing: "application/vnd.ms-visio.drawing.main+xml", "vsdx"
     [ media_type |-> <<97, 112, 112, 108, 105, 99, 97, 116, 105, 111, 110, 47, 118, 110, 100, 46, 109, 115, 45, 118, 105, 115, 105, 111, 46, 100, 114, 97, 119, 105, 110, 103, 46, 109, 97, 105, 110, 43, 120, 109, 108>>,
       extension |-> <<118, 115, 100, 120>> ],
     \* OfficeOpenXmlPresentation: "application/vnd.openxmlformats-officedocument.presentationml.presentation", "pptx"
     [ media_type |-> <<97, 112, 112, 108, 105, 99, 97, 116, 105, 111, 110, 47, 118, 110, 100, 46, 111, 112, 101, 110, 120, 109, 108, 102, 111, 114, 109, 97, 116, 115, 45, 111, 102, 102, 105, 99, 101, 100, 111, 99, 117, 109, 101, 110, 116, 46, 112, 114, 101, 115, 101, 110, 116, 97, 116, 105, 111, 110, 109, 108, 46, 112, 114, 101, 115, 101, 110, 116, 97, 116, 105, 111, 110>>,
       extension |-> <<112, 112, 116, 120>> ],
     \* OfficeOpenXmlSpreadsheet: "application/vnd.openxmlformats-officedocument.spreadsheetml.sheet", "xlsx"
     [ media_type |-> <<97, 112, 112, 108, 105, 99, 97, 116, 105, 111, 110, 47, 118, 110, 100, 46, 111, 112, 101, 110, 120, 109, 108, 102, 111, 114, 109, 97, 116, 115, 45, 111, 102, 102, 105, 99, 101, 100, 111, 99, 117, 109, 101, 110, 116, 46, 115, 112, 114, 101, 97, 100, 115, 104, 101, 101, 116, 109, 108, 46, 115, 104, 101, 101, 116>>,
       extension |-> <<120, 108, 115, 120>> ],
     \* OggFlac: "audio/ogg", "oga"
     [ media_type |-> <<97, 117, 100, 105, 111, 47, 111, 103, 103>>,
       extension |-> <<111, 103, 97>> ],
     \* OggMedia: "video/ogg", "ogm"
     [ media_type |-> <<118, 105, 100, 101, 111, 47, 111, 103, 103>>,
       extension |-> <<111, 103, 109>> ],
     \* OggMultiplexedMedia: "application/ogg", "ogx"
     [ media_type |-> <<97, 112, 112, 108, 105, 99, 97, 116, 105, 111, 110, 47, 111, 103, 103>>,
       extension |-> <<111, 103, 120>> ],
     \* OggOpus: "audio/opus", "opus"
     [ media_type |-> <<97, 117, 100, 105, 111, 47, 111, 112, 117, 115>>,
       extension |-> <<111, 112, 117, 115>> ],
     \* OggSpeex: "audio/ogg", "spx"
     [ media_type |-> <<97, 117, 100, 105, 111, 47, 111, 103, 103>>,
       extension |-> <<115, 112, 120>> ],
     \* OggTheora: "video/ogg", "ogv"
     [ media_type |-> <<118, 105, 100, 101, 111, 47, 111, 103, 103>>,
       extension |-> <<111, 103, 118>> ],
     \* OggVorbis: "audio/ogg", "ogg"
     [ media_type |-> <<97, 117, 100, 105, 111, 47, 111, 103, 103>>,
       extension |-> <<111, 103, 103>> ],
     \* OlympusRawFormat: "image/x-olympus-orf", "orf"
     [ media_type |-> <<105, 109, 97, 103, 101, 47, 120, 45, 111, 108, 121, 109, 112, 117, 115, 45, 111, 114, 102>>,
       extension |-> <<111, 114, 102>> ],
     \* OpenDocumentGraphics: "application/vnd.oasis.opendocument.graphics", "odg"
     [ media_type |-> <<97, 112, 112, 108, 105, 99, 97, 116, 105, 111, 110, 47, 118, 110, 100, 46, 111, 97, 115, 105, 115, 46, 111, 112, 101, 110, 100, 111, 99, 117, 109, 101, 110, 116, 46, 103, 114, 97, 112, 104, 105, 99, 115>>,
       extension |-> <<111, 100, 103>> ],
     \* OpenDocumentPresentation: "application/vnd.oasis.opendocument.presentation", "odp"
     [ media_type |-> <<97, 112, 112, 108, 105, 99, 97, 116, 105, 111, 110, 47, 118, 110, 100, 46, 111, 97, 115, 105, 115, 46, 111, 112, 101, 110, 100, 111, 99, 117, 109, 101, 110, 116, 46, 112, 114, 101, 115, 101, 110, 116, 97, 116, 105, 111, 110>>,
       extension |-> <<111, 100, 112>> ],
     \* OpenDocumentSpreadsheet: "application/vnd.oasis.opendocument.spreadsheet", "ods"
     [ media_type |-> <<97, 112, 112, 108, 105, 99, 97, 116, 105, 111, 110, 47, 118, 110, 100, 46, 111, 97, 115, 105, 115, 46, 111, 112, 101, 110, 100, 111, 99, 117, 109, 101, 110, 116, 46, 115, 112, 114, 101, 97, 100, 115, 104, 101, 101, 116>>,
       extension |-> <<111, 100, 115>> ],
     \* OpenDocumentText: "application/vnd.oasis.opendocument.text", "odt"
     [ media_type |-> <<97, 112, 112, 108, 105, 99, 97, 116, 105, 111, 110, 47, 118, 110, 100, 46, 111, 97, 115, 105, 115, 46, 111, 112, 101, 110, 100, 111, 99, 117, 109, 101, 110, 116, 46, 116, 101, 120, 116>>,
       extension |-> <<111, 100, 116>> ],
     \* Openexr: "image/x-exr", "exr"
     [ media_type |-> <<105, 109, 97, 103, 101, 47, 120, 45, 101, 120, 114>>,
       extension |-> <<101, 120, 114>> ],
     \* Openraster: "image/openraster", "ora"
     [ media_type |-> <<105, 109, 97, 103, 101, 47, 111, 112, 101, 110, 114, 97, 115, 116, 101, 114>>,
       extension |-> <<111, 114, 97>> ],
     \* Opentype: "font/otf", "otf"
     [ media_type |-> <<102, 111, 110, 116, 47, 111, 116, 102>>,
       extension |-> <<111, 116, 102>> ],
     \* OptimizedDalvikExecutable: "application/vnd.android.dey", "dey"
     [ media_type |-> <<97, 112, 112, 108, 105, 99, 97, 116, 105, 111, 110, 47, 118, 110, 100, 46, 97, 110, 100, 114, 111, 105, 100, 46, 100, 101, 121>>,
       extension |-> <<100, 101, 121>> ],
     \* PanasonicRaw: "image/x-panasonic-rw2", "rw2"
     [ media_type |-> <<105, 109, 97, 103, 101, 47, 120, 45, 112, 97, 110, 97, 115, 111, 110, 105, 99, 45, 114, 119, 50>>,
       extension |-> <<114, 119, 50>> ],
     \* PcapDump: "application/vnd.tcpdump.pcap", "pcap"
     [ media_type |-> <<97, 112, 112, 108, 105, 99, 97, 116, 105, 111, 110, 47, 118, 110, 100, 46, 116, 99, 112, 100, 117, 109, 112, 46, 112, 99, 97, 112>>,
       extension |-> <<112, 99, 97, 112>> ],
     \* PcapNextGenerationDump: "application/x-pcapng", "pcapng"
     [ media_type |-> <<97, 112, 112, 108, 105, 99, 97, 116, 105, 111, 110, 47, 120, 45, 112, 99, 97, 112, 110, 103>>,
       extension |-> <<112, 99, 97, 112, 110, 103>> ],
     \* PemCertificate: "application/x-pem-file", "crt"
     [ media_type |-> <<97, 112, 112, 108, 105, 99, 97, 116, 105, 111, 110, 47, 120, 45, 112, 101, 109, 45, 102, 105, 108, 101>>,
       extension |-> <<99, 114, 116>> ],
     \* PemCertificateSigningRequest: "application/x-pem-file", "csr"
     [ media_type |-> <<97, 112, 112, 108, 105, 99, 97, 116, 105, 111, 110, 47, 120, 45, 112, 101, 109, 45, 102, 105, 108, 101>>,
       extension |-> <<99, 115, 114>> ],
     \* PemPrivateKey: "application/x-pem-file", "key"
     [ media_type |-> <<97, 112, 112, 108, 105, 99, 97, 116, 105, 111, 110, 47, 120, 45, 112, 101, 109, 45, 102, 105, 108, 101>>,
       extension |-> <<107, 101, 121>> ],
     \* PerlScript: "text/x-perl", "pl"
     [ media_type |-> <<116, 101, 120, 116, 47, 120, 45, 112, 101, 114, 108>>,
       extension |-> <<112, 108>> ],
     \* PersonalStorageTable: "application/vnd.ms-outlook", "pst"
     [ media_type |-> <<97, 112, 112, 108, 105, 99, 97, 116, 105, 111, 110, 47, 118, 110, 100, 46, 109, 115, 45, 111, 117, 116, 108, 111, 111, 107>>,
       extension |-> <<112, 115, 116>> ],
     \* PgpMessage: "application/pgp", "asc"
     [ media_type |-> <<97, 112, 112, 108, 105, 99, 97, 116, 105, 111, 110, 47, 112, 103, 112>>,
       extension |-> <<97, 115, 99>> ],
     \* PgpPrivateKeyBlock: "application/pgp-keys", "asc"
     [ media_type |-> <<97, 112, 112, 108, 105, 99, 97, 116, 105, 111, 110, 47, 112, 103, 112, 45, 107, 101, 121, 115>>,
       extension |-> <<97, 115, 99>> ],
     \* PgpPublicKeyBlock: "application/pgp-keys", "asc"
     [ media_type |-> <<97, 112, 112, 108, 105, 99, 97, 116, 105, 111, 110, 47, 112, 103, 112, 45, 107, 101, 121, 115>>,
       extension |-> <<97, 115, 99>> ],
     \* PgpSignature: "application/pgp-signature", "asc"
     [ media_type |-> <<97, 112, 112, 108, 105, 99, 97, 116, 105, 111, 110, 47, 112, 103, 112, 45, 115, 105, 103, 110, 97, 116, 117, 114, 101>>,
       extension |-> <<97, 115, 99>> ],
     \* PgpSignedMessage: "application/pgp", "asc"
     [ media_type |-> <<97, 112, 112, 108, 105, 99, 97, 116, 105, 111, 110, 47, 112, 103, 112>>,
       extension |-> <<97, 115, 99>> ],
     \* PlainText: "text/plain", "txt"
     [ media_type |-> <<116, 101, 120, 116, 47, 112, 108, 97, 105, 110>>,
       extension |-> <<116, 120, 116>> ],
     \* Pmarc: "application/x-lzh-compressed", "pma"
     [ media_type |-> <<97, 112, 112, 108, 105, 99, 97, 116, 105, 111, 110, 47, 120, 45, 108, 122, 104, 45, 99, 111, 109, 112, 114, 101, 115, 115, 101, 100>>,
       extension |-> <<112, 109, 97>> ],
     \* PortableDocumentFormat: "application/pdf", "pdf"
     [ media_type |-> <<97, 112, 112, 108, 105, 99, 97, 116, 105, 111, 110, 47, 112, 100, 102>>,
       extension |-> <<112, 100, 102>> ],
     \* PortableExecutable: "application/vnd.microsoft.portable-executable", "exe"
     [ media_type |-> <<97, 112, 112, 108, 105, 99, 97, 116, 105, 111, 110, 47, 118, 110, 100, 46, 109, 105, 99, 114, 111, 115, 111, 102, 116, 46, 112, 111, 114, 116, 97, 98, 108, 101, 45, 101, 120, 101, 99, 117, 116, 97, 98, 108, 101>>,
       extension |-> <<101, 120, 101>> ],
     \* PortableNetworkGraphics: "image/png", "png"
     [ media_type |-> <<105, 109, 97, 103, 101, 47, 112, 110, 103>>,
       extension |-> <<112, 110, 103>> ],
     \* Postscript: "application/postscript", "ps"
     [ media_type |-> <<97, 112, 112, 108, 105, 99, 97, 116, 105, 111, 110, 47, 112, 111, 115, 116, 115, 99, 114, 105, 112, 116>>,
       extension |-> <<112, 115>> ],
     \* PythonScript: "text/x-script.python", "py"
     [ media_type |-> <<116, 101, 120, 116, 47, 120, 45, 115, 99, 114, 105, 112, 116, 46, 112, 121, 116, 104, 111, 110>>,
       extension |-> <<112, 121>> ],
     \* QualcommPureVoice: "audio/qcelp", "qcp"
     [ media_type |-> <<97, 117, 100, 105, 111, 47, 113, 99, 101, 108, 112>>,
       extension |-> <<113, 99, 112>> ],
     \* RadianceHdr: "image/vnd.radiance", "hdr"
     [ media_type |-> <<105, 109, 97, 103, 101, 47, 118, 110, 100, 46, 114, 97, 100, 105, 97, 110, 99, 101>>,
       extension |-> <<104, 100, 114>> ],
     \* ReallySimpleSyndication: "application/rss+xml", "rss"
     [ media_type |-> <<97, 112, 112, 108, 105, 99, 97, 116, 105, 111, 110, 47, 114, 115, 115, 43, 120, 109, 108>>,
       extension |-> <<114, 115, 115>> ],
     \* RedHatPackageManager: "application/x-rpm", "rpm"
     [ media_type |-> <<97, 112, 112, 108, 105, 99, 97, 116, 105, 111, 110, 47, 120, 45, 114, 112, 109>>,
       extension |-> <<114, 112, 109>> ],
     \* RichTextFormat: "application/rtf", "rtf"
     [ media_type |-> <<97, 112, 112, 108, 105, 99, 97, 116, 105, 111, 110, 47, 114, 116, 102>>,
       extension |-> <<114, 116, 102>> ],
     \* RoshalArchive: "application/vnd.rar", "rar"
     [ media_type |-> <<97, 112, 112, 108, 105, 99, 97, 116, 105, 111, 110, 47, 118, 110, 100, 46, 114, 97, 114>>,
       extension |-> <<114, 97, 114>> ],
     \* RubyScript: "text/x-ruby", "rb"
     [ media_type |-> <<116, 101, 120, 116, 47, 120, 45, 114, 117, 98, 121>>,
       extension |-> <<114, 98>> ],
     \* ScalableVectorGraphics: "image/svg+xml", "svg"
     [ media_type |-> <<105, 109, 97, 103, 101, 47, 115, 118, 103, 43, 120, 109, 108>>,
       extension |-> <<115, 118, 103>> ],
     \* Screamtracker3Module: "audio/x-s3m", "s3m"
     [ media_type |-> <<97, 117, 100, 105, 111, 47, 120, 45, 115, 51, 109>>,
       extension |-> <<115, 51, 109>> ],
     \* Seqbox: "application/x-sbx", "sbx"
     [ media_type |-> <<97, 112, 112, 108, 105, 99, 97, 116, 105, 111, 110, 47, 120, 45, 115, 98, 120>>,
       extension |-> <<115, 98, 120>> ],
     \* SevenZip: "application/x-7z-compressed", "7z"
     [ media_type |-> <<97, 112, 112, 108, 105, 99, 97, 116, 105, 111, 110, 47, 120, 45, 55, 122, 45, 99, 111, 109, 112, 114, 101, 115, 115, 101, 100>>,
       extension |-> <<55, 122>> ],
     \* Shapefile: "application/x-esri-shape", "shp"
     [ media_type |-> <<97, 112, 112, 108, 105, 99, 97, 116, 105, 111, 110, 47, 120, 45, 101, 115, 114, 105, 45, 115, 104, 97, 112, 101>>,
       extension |-> <<115, 104, 112>> ],
     \* ShellScript: "text/x-shellscript", "sh"
     [ media_type |-> <<116, 101, 120, 116, 47, 120, 45, 115, 104, 101, 108, 108, 115, 99, 114, 105, 112, 116>>,
       extension |-> <<115, 104>> ],
     \* SimpleObjectAccessProtocol: "application/soap+xml", "soap"
     [ media_type |-> <<97, 112, 112, 108, 105, 99, 97, 116, 105, 111, 110, 47, 115, 111, 97, 112, 43, 120, 109, 108>>,
       extension |-> <<115, 111, 97, 112>> ],
     \* Sketchup: "application/vnd.sketchup.skp", "skp"
     [ media_type |-> <<97, 112, 112, 108, 105, 99, 97, 116, 105, 111, 110, 47, 118, 110, 100, 46, 115, 107, 101, 116, 99, 104, 117, 112, 46, 115, 107, 112>>,
       extension |-> <<115, 107, 112>> ],
     \* SmallWebFormat: "application/x-shockwave-flash", "swf"
     [ media_type |-> <<97, 112, 112, 108, 105, 99, 97, 116, 105, 111, 110, 47, 120, 45, 115, 104, 111, 99, 107, 119, 97, 118, 101, 45, 102, 108, 97, 115, 104>>,
       extension |-> <<115, 119, 102>> ],
     \* Snappy: "application/x-snappy-framed", "sz"
     [ media_type |-> <<97, 112, 112, 108, 105, 99, 97, 116, 105, 111, 110, 47, 120, 45, 115, 110, 97, 112, 112, 121, 45, 102, 114, 97, 109, 101, 100>>,
       extension |-> <<115, 122>> ],
     \* SonyDsdStreamFile: "audio/x-dsf", "dsf"
     [ media_type |-> <<97, 117, 100, 105, 111, 47, 120, 45, 100, 115, 102>>,
       extension |-> <<100, 115, 102>> ],
     \* SonyMovie: "video/quicktime", "mqv"
     [ media_type |-> <<118, 105, 100, 101, 111, 47, 113, 117, 105, 99, 107, 116, 105, 109, 101>>,
       extension |-> <<109, 113, 118>> ],
     \* Sqlite3: "application/vnd.sqlite3", "sqlite"
     [ media_type |-> <<97, 112, 112, 108, 105, 99, 97, 116, 105, 111, 110, 47, 118, 110, 100, 46, 115, 113, 108, 105, 116, 101, 51>>,
       extension |-> <<115, 113, 108, 105, 116, 101>> ],
     \* TagImageFileFormat: "image/tiff", "tiff"
     [ media_type |-> <<105, 109, 97, 103, 101, 47, 116, 105, 102, 102>>,
       extension |-> <<116, 105, 102, 102>> ],
     \* TapeArchive: "application/x-tar", "tar"
     [ media_type |-> <<97, 112, 112, 108, 105, 99, 97, 116, 105, 111, 110, 47, 120, 45, 116, 97, 114>>,
       extension |-> <<116, 97, 114>> ],
     \* Tasty: "application/x-tasty", "tasty"
     [ media_type |-> <<97, 112, 112, 108, 105, 99, 97, 116, 105, 111, 110, 47, 120, 45, 116, 97, 115, 116, 121>>,
       extension |-> <<116, 97, 115, 116, 121>> ],
     \* ThirdGenerationPartnershipProject: "video/3gpp", "3gp"
     [ media_type |-> <<118, 105, 100, 101, 111, 47, 51, 103, 112, 112>>,
       extension |-> <<51, 103, 112>> ],
     \* ThirdGenerationPartnershipProject2: "video/3gpp2", "3g2"
     [ media_type |-> <<118, 105, 100, 101, 111, 47, 51, 103, 112, 112, 50>>,
       extension |-> <<51, 103, 50>> ],
     \* ThreeDimensionalManufacturingFormat: "application/vnd.ms-package.3dmanufacturing-3dmodel+xml", "3mf"
     [ media_type |-> <<97, 112, 112, 108, 105, 99, 97, 116, 105, 111, 110, 47, 118, 110, 100, 46, 109, 115, 45, 112, 97, 99, 107, 97, 103, 101, 46, 51, 100, 109, 97, 110, 117, 102, 97, 99, 116, 117, 114, 105, 110, 103, 45, 51, 100, 109, 111, 100, 101, 108, 43, 120, 109, 108>>,
       extension |-> <<51, 109, 102>> ],
     \* ToolCommandLanguageScript: "text/x-tcl", "tcl"
     [ media_type |-> <<116, 101, 120, 116, 47, 120, 45, 116, 99, 108>>,
       extension |-> <<116, 99, 108>> ],
     \* Truetype: "font/ttf", "ttf"
     [ media_type |-> <<102, 111, 110, 116, 47, 116, 116, 102>>,
       extension |-> <<116, 116, 102>> ],
     \* UnixArchiver: "application/x-archive", "a"
     [ media_type |-> <<97, 112, 112, 108, 105, 99, 97, 116, 105, 111, 110, 47, 120, 45, 97, 114, 99, 104, 105, 118, 101>>,
       extension |-> <<97>> ],
     \* UnixCompress: "application/x-compress", "Z"
     [ media_type |-> <<97, 112, 112, 108, 105, 99, 97, 116, 105, 111, 110, 47, 120, 45, 99, 111, 109, 112, 114, 101, 115, 115>>,
       extension |-> <<90>> ],
     \* Vcalendar: "text/calendar", "vcs"
     [ media_type |-> <<116, 101, 120, 116, 47, 99, 97, 108, 101, 110, 100, 97, 114>>,
       extension |-> <<118, 99, 115>> ],
     \* Vcard: "text/vcard", "vcf"
     [ media_type |-> <<116, 101, 120, 116, 47, 118, 99, 97, 114, 100>>,
       extension |-> <<118, 99, 102>> ],
     \* VirtualboxVirtualDiskImage: "application/x-virtualbox-vdi", "vdi"
     [ media_type |-> <<97, 112, 112, 108, 105, 99, 97, 116, 105, 111, 110, 47, 120, 45, 118, 105, 114, 116, 117, 97, 108, 98, 111, 120, 45, 118, 100, 105>>,
       extension |-> <<118, 100, 105>> ],
     \* WaveformAudio: "audio/vnd.wave", "wav"
     [ media_type |-> <<97, 117, 100, 105, 111, 47, 118, 110, 100, 46, 119, 97, 118, 101>>,
       extension |-> <<119, 97, 118>> ],
     \* Wavpack: "audio/wavpack", "wv"
     [ media_type |-> <<97, 117, 100, 105, 111, 47, 119, 97, 118, 112, 97, 99, 107>>,
       extension |-> <<119, 118>> ],
     \* WebApplicationArchive: "application/java-archive", "war"
     [ media_type |-> <<97, 112, 112, 108, 105, 99, 97, 116, 105, 111, 110, 47, 106, 97, 118, 97, 45, 97, 114, 99, 104, 105, 118, 101>>,
       extension |-> <<119, 97, 114>> ],
     \* WebOpenFontFormat: "font/woff", "woff"
     [ media_type |-> <<102, 111, 110, 116, 47, 119, 111, 102, 102>>,
       extension |-> <<119, 111, 102, 102>> ],
     \* WebOpenFontFormat2: "font/woff2", "woff2"
     [ media_type |-> <<102, 111, 110, 116, 47, 119, 111, 102, 102, 50>>,
       extension |-> <<119, 111, 102, 102, 50>> ],
     \* WebassemblyBinary: "application/wasm", "wasm"
     [ media_type |-> <<97, 112, 112, 108, 105, 99, 97, 116, 105, 111, 110, 47, 119, 97, 115, 109>>,
       extension |-> <<119, 97, 115, 109>> ],
     \* Webm: "video/webm", "webm"
     [ media_type |-> <<118, 105, 100, 101, 111, 47, 119, 101, 98, 109>>,
       extension |-> <<119, 101, 98, 109>> ],
     \* Webp: "image/webp", "webp"
     [ media_type |-> <<105, 109, 97, 103, 101, 47, 119, 101, 98, 112>>,
       extension |-> <<119, 101, 98, 112>> ],
     \* WindowsAnimatedCursor: "application/x-navi-animation", "ani"
     [ media_type |-> <<97, 112, 112, 108, 105, 99, 97, 116, 105, 111, 110, 47, 120, 45, 110, 97, 118, 105, 45, 97, 110, 105, 109, 97, 116, 105, 111, 110>>,
       extension |-> <<97, 110, 105>> ],
     \* WindowsAppPackage: "application/vnd.ms-appx", "appx"
     [ media_type |-> <<97, 112, 112, 108, 105, 99, 97, 116, 105, 111, 110, 47, 118, 110, 100, 46, 109, 115, 45, 97, 112, 112, 120>>,
       extension |-> <<97, 112, 112, 120>> ],
     \* WindowsBitmap: "image/bmp", "bmp"
     [ media_type |-> <<105, 109, 97, 103, 101, 47, 98, 109, 112>>,
       extension |-> <<98, 109, 112>> ],
     \* WindowsCursor: "image/x-icon", "cur"
     [ media_type |-> <<105, 109, 97, 103, 101, 47, 120, 45, 105, 99, 111, 110>>,
       extension |-> <<99, 117, 114>> ],
     \* WindowsIcon: "image/x-icon", "ico"
     [ media_type |-> <<105, 109, 97, 103, 101, 47, 120, 45, 105, 99, 111, 110>>,
       extension |-> <<105, 99, 111>> ],
     \* WindowsMediaVideo: "video/x-ms-asf", "wmv"
     [ media_type |-> <<118, 105, 100, 101, 111, 47, 120, 45, 109, 115, 45, 97, 115, 102>>,
       extension |-> <<119, 109, 118>> ],
     \* WindowsMetafile: "image/wmf", "wmf"
     [ media_type |-> <<105, 109, 97, 103, 101, 47, 119, 109, 102>>,
       extension |-> <<119, 109, 102>> ],
     \* WindowsShortcut: "application/x-ms-shortcut", "lnk"
     [ media_type |-> <<97, 112, 112, 108, 105, 99, 97, 116, 105, 111, 110, 47, 120, 45, 109, 115, 45, 115, 104, 111, 114, 116, 99, 117, 116>>,
       extension |-> <<108, 110, 107>> ],
     \* Xap: "application/x-silverlight-app", "xap"
     [ media_type |-> <<97, 112, 112, 108, 105, 99, 97, 116, 105, 111, 110, 47, 120, 45, 115, 105, 108, 118, 101, 114, 108, 105, 103, 104, 116, 45, 97, 112, 112>>,
       extension |-> <<120, 97, 112>> ],
     \* XmlLocalizationInterchangeFileFormat: "application/xliff+xml", "xlf"
     [ media_type |-> <<97, 112, 112, 108, 105, 99, 97, 116, 105, 111, 110, 47, 120, 108, 105, 102, 102, 43, 120, 109, 108>>,
       extension |-> <<120, 108, 102>> ],
     \* Xpinstall: "application/x-xpinstall", "xpi"
     [ media_type |-> <<97, 112, 112, 108, 105, 99, 97, 116, 105, 111, 110, 47, 120, 45, 120, 112, 105, 110, 115, 116, 97, 108, 108>>,
       extension |-> <<120, 112, 105>> ],
     \* Xz: "application/x-xz", "xz"
     [ media_type |-> <<97, 112, 112, 108, 105, 99, 97, 116, 105, 111, 110, 47, 120, 45, 120, 122>>,
       extension |-> <<120, 122>> ],
     \* Zip: "application/zip", "zip"
     [ media_type |-> <<97, 112, 112, 108, 105, 99, 97, 116, 105, 111, 110, 47, 122, 105, 112>>,
       extension |-> <<122, 105, 112>> ],
     \* Zoo: "application/x-zoo", "zoo"
     [ media_type |-> <<97, 112, 112, 108, 105, 99, 97, 116, 105, 111, 110, 47, 120, 45, 122, 111, 111>>,
       extension |-> <<122, 111, 111>> ],
     \* Zstandard: "application/zstd", "zst"
     [ media_type |-> <<97, 112, 112, 108, 105, 99, 97, 116, 105, 111, 110, 47, 122, 115, 116, 100>>,
       extension |-> <<122, 115, 116>> ] }

\* ---------------------------------------------------------------------------
\* FileFormat and the matcher generated by the signatures! macro.
\* ---------------------------------------------------------------------------

\* FileFormat::new: both strings are copied byte for byte (String::from).
FileFormat_new(media_type, extension) ==
  [ media_type |-> media_type, extension |-> extension ]

\* impl Default for FileFormat: FileFormat::new("application/octet-stream", "bin").
FileFormat_default ==
  FileFormat_new(<<97, 112, 112, 108, 105, 99, 97, 116, 105, 111, 110, 47, 111, 99, 116, 101, 116, 45, 115, 116, 114, 101, 97, 109>>,
                 <<98, 105, 110>>)

\* FileFormat::media_type, FileFormat::extension: the stored strings.
media_type(self) == self.media_type
extension(self) == self.extension

\* bytes[from..to] panics unless from <= to <= bytes.len().
SliceInRange(b, from, to) == from <= to /\ to <= Len(b)

\* &bytes[from..to], for a range that is in range.
Slice(b, from, to) == SubSeq(b, from + 1, to)

\* PartCond with the slice taken from the start of the buffer.
PartCond_IgnoresOffset(b, part) ==
  LET end == part.offset + Len(part.value)
  IN  IF Len(b) >= end
        THEN IF ~SliceInRange(b, 0, Len(part.value)) THEN "panic"
             ELSE IF Slice(b, 0, Len(part.value)) = part.value THEN "true"
             ELSE "false"
        ELSE "false"

\* PartCond with a length test that lets a buffer one byte short through.
PartCond_OneShort(b, part) ==
  LET end == part.offset + Len(part.value)
  IN  IF Len(b) + 1 >= end
        THEN IF ~SliceInRange(b, part.offset, end) THEN "panic"
             ELSE IF Slice(b, part.offset, end) = part.value THEN "true"
             ELSE "false"
        ELSE "false"

\* PartCond with the length of the pattern left out of the length test.
PartCond_OffsetOnly(b, part) ==
  LET end == part.offset + Len(part.value)
  IN  IF Len(b) >= part.offset
        THEN IF ~SliceInRange(b, part.offset, end) THEN "panic"
             ELSE IF Slice(b, part.offset, end) = part.value THEN "true"
             ELSE "false"
        ELSE "false"

\* PartCond that compares as much of the pattern as the buffer holds.
PartCond_Lenient(b, part) ==
  LET end == IF Len(b) < part.offset + Len(part.value)
               THEN Len(b) ELSE part.offset + Len(part.value)
  IN  IF Len(b) >= part.offset
        THEN IF Slice(b, part.offset, end) = SubSeq(part.value, 1, end - part.offset)
               THEN "true" ELSE "false"
        ELSE "false"

\* PartCond with the length test mistyped as an equality.
PartCond_ExactEnd(b, part) ==
  LET end == part.offset + Len(part.value)
  IN  IF Len(b) = end
        THEN IF ~SliceInRange(b, part.offset, end) THEN "panic"
             ELSE IF Slice(b, part.offset, end) = part.value THEN "true"
             ELSE "false"
        ELSE "false"

\* One part of the generated condition:
\*   bytes.len() >= $offset + $signature.len()
\*       && &bytes[$offset..$offset + $signature.len()] == $signature
\* "true", "false", or "panic" when the slice is taken out of range.  && does
\* not evaluate its right operand when the left one is false.
PartCond(b, part) ==
  LET end == part.offset + Len(part.value)
  IN  IF Len(b) >= end
        THEN IF ~SliceInRange(b, part.offset, end) THEN "panic"
             ELSE IF Slice(b, part.offset, end) = part.value THEN "true"
             ELSE "false"
        ELSE "false"

\* PartsCond with the parts joined by || instead of &&.
RECURSIVE PartsCond_Any(_, _, _)
PartsCond_Any(b, parts, i) ==
  IF i > Len(parts) THEN "false"
  ELSE LET c == PartCond(b, parts[i])
       IN  IF c = "false" THEN PartsCond_Any(b, parts, i + 1) ELSE c

\* The parts of one alternative, joined by &&, evaluated left to right from
\* part i on: the first part that is not true decides.
RECURSIVE PartsCond(_, _, _)
PartsCond(b, parts, i) ==
  IF i > Len(parts) THEN "true"
  ELSE LET c == PartCond(b, parts[i])
       IN  IF c = "true" THEN PartsCond(b, parts, i + 1) ELSE c

\* AltsCond where the k-th part of any alternative stands in for the k-th part
\* of any other: true when every position has a part, of some alternative,
\* that is true.
AltsCond_Crossed(b, alts, i) ==
  LET longest == CHOOSE n \in { Len(alts[a].parts) : a \in 1..Len(alts) } :
                   \A a \in 1..Len(alts) : Len(alts[a].parts) <= n
  IN  IF \A k \in 1..longest :
           \E a \in 1..Len(alts) :
             /\ Len(alts[a].parts) >= k
             /\ PartCond(b, alts[a].parts[k]) = "true"
        THEN "true" ELSE "false"

\* AltsCond that tests the first alternative of a rule only.
AltsCond_FirstOnly(b, alts, i) ==
  IF i > Len(alts) THEN "false" ELSE PartsCond(b, alts[1].parts, 1)

\* The alternatives of one rule, joined by ||, evaluated left to right from
\* alternative i on: the first alternative that is not false decides.
RECURSIVE AltsCond(_, _, _)
AltsCond(b, alts, i) ==
  IF i > Len(alts) THEN "false"
  ELSE LET c == PartsCond(b, alts[i].parts, 1)
       IN  IF c = "false" THEN AltsCond(b, alts, i + 1) ELSE c

\* The condition of the `if` generated for one rule.
RuleCond(b, rule) == AltsCond(b, rule.signatures, 1)

\* from_signature where a later rule that matches overrides an earlier one.
from_signature_LastWins(b) ==
  LET decided == { i \in 1..Len(signatures) : RuleCond(b, signatures[i]) # "false" }
  IN  IF decided = {} THEN [ tag |-> "None" ]
      ELSE LET last == CHOOSE i \in decided : \A j \in decided : i >= j
           IN  IF RuleCond(b, signatures[last]) = "true"
                 THEN [ tag |-> "Some",
                        value |-> FileFormat_new(signatures[last].media_type,
                                                 signatures[last].extension) ]
                 ELSE [ tag |-> "Panic" ]

\* FileFormat::from_signature: one
\*   if <condition of the rule> { return Some(FileFormat::new(..)); }
\* per rule, in declaration order, then None.  The first rule whose condition
\* is not false ends the function: with Some when it is true, with a panic
\* when it indexed out of range; the rules after it are not evaluated.
from_signature(b) ==
  LET decided == { i \in 1..Len(signatures) : RuleCond(b, signatures[i]) # "false" }
  IN  IF decided = {} THEN [ tag |-> "None" ]
      ELSE LET first == CHOOSE i \in decided : \A j \in decided : i <= j
           IN  IF RuleCond(b, signatures[first]) = "true"
                 THEN [ tag |-> "Some",
                        value |-> FileFormat_new(signatures[first].media_type,
                                                 signatures[first].extension) ]
                 ELSE [ tag |-> "Panic" ]

\* Option::unwrap_or_default
unwrap_or_default(opt) ==
  IF opt.tag = "Some" THEN opt.value ELSE FileFormat_default

\* No FileFormat: before any call, and when the call panicked.
NoFormat == [ media_type |-> <<>>, extension |-> <<>> ]

\* FileFormat::from_bytes: [panicked, format].
from_bytes(b) ==
  LET opt == from_signature(b)
  IN  IF opt.tag = "Panic"
        THEN [ panicked |-> TRUE, format |-> NoFormat ]
        ELSE [ panicked |-> FALSE, format |-> unwrap_or_default(opt) ]

\* ---------------------------------------------------------------------------
\* The buffers from_bytes is called with.
\* ---------------------------------------------------------------------------

\* Bytes that fill the places of a buffer no signature part is written to.
Fills == { 0, 71, 255 }

\* The place of a rule in the table.
IndexOf(rule) == CHOOSE i \in 1..Len(signatures) : signatures[i] = rule

\* Every (rule, alternative) of the table.
Alternatives ==
  UNION { { <<r, a>> : a \in 1..Len(signatures[r].signatures) } :
          r \in 1..Len(signatures) }

PartsOf(ra) == signatures[ra[1]].signatures[ra[2]].parts

PartEnd(part) == part.offset + Len(part.value)

RECURSIVE PartsEnd(_, _)
PartsEnd(parts, i) ==
  IF i > Len(parts) THEN 0
  ELSE LET rest == PartsEnd(parts, i + 1)
       IN  IF PartEnd(parts[i]) > rest THEN PartEnd(parts[i]) ELSE rest

\* The alternatives none of whose parts lies at offset 0: their signature can
\* sit behind the magic number of another format.
Floating ==
  { ra \in Alternatives :
      \A i \in 1..Len(PartsOf(ra)) : PartsOf(ra)[i].offset > 0 }

\* Of each rule with such alternatives, the first one.
FloatingFirst ==
  { ra \in Floating : \A a \in 1..(ra[2] - 1) : <<ra[1], a>> \notin Floating }

\* b with value written at offset (the buffer is long enough), from byte i on.
RECURSIVE WriteAt(_, _, _, _)
WriteAt(b, offset, value, i) ==
  IF i > Len(value) THEN b
  ELSE WriteAt([b EXCEPT ![offset + i] = value[i]], offset, value, i + 1)

\* b with the parts i.. written to it, the first part last: where two parts
\* overlap the earlier one is what the buffer holds.
RECURSIVE WriteParts(_, _, _)
WriteParts(b, parts, i) ==
  IF i > Len(parts) THEN b
  ELSE WriteAt(WriteParts(b, parts, i + 1), parts[i].offset, parts[i].value, 1)

\* n bytes `fill` (SubSeq makes the function a sequence).
Filled(n, fill) == SubSeq([i \in 1..n |-> fill], 1, n)

\* The shortest buffer that holds every part of the alternative, fill elsewhere.
Fixture(ra, fill) ==
  WriteParts(Filled(PartsEnd(PartsOf(ra), 1), fill), PartsOf(ra), 1)

\* The shortest buffer that holds the parts of `ra` and, where `ra` leaves
\* room, those of `over`.
Overlay(ra, over, fill) ==
  LET parts == PartsOf(ra) \o PartsOf(over)
  IN  WriteParts(Filled(PartsEnd(parts, 1), fill), parts, 1)

\* The first part of `ra` and, written over it, the parts after the first of
\* `other`: the parts of two alternatives mixed in one buffer.
Mixed(ra, other, fill) ==
  LET parts == Tail(PartsOf(other)) \o << PartsOf(ra)[1] >>
  IN  WriteParts(Filled(PartsEnd(parts, 1), fill), parts, 1)

\* The pairs of distinct alternatives of one rule, the second with a part
\* after its first.
MixedPairs ==
  { p \in Alternatives \X Alternatives :
      /\ p[1][1] = p[2][1]
      /\ p[1][2] # p[2][2]
      /\ Len(PartsOf(p[2])) >= 2 }

Take(b, n) == SubSeq(b, 1, n)

\* The exact signatures of the alternatives of the table: for each, the
\* shortest buffer that holds its parts, zero elsewhere.
ExactSignatures == { Fixture(ra, 0) : ra \in Alternatives }

\* What can be appended to the buffer b: a few bytes of one value, the rest of
\* each signature that b is the beginning of and, when b is itself a signature,
\* the rest of each signature that has no part at offset 0.
Suffixes(b, most) ==
  { Filled(k, fill) : k \in 1..most, fill \in Fills }
    \cup { SubSeq(f, Len(b) + 1, Len(f)) :
             f \in { g \in ExactSignatures :
                       Len(g) > Len(b) /\ b = SubSeq(g, 1, Len(b)) } }
    \cup { SubSeq(Fixture(ra, 0), Len(b) + 1, PartsEnd(PartsOf(ra), 1)) :
             ra \in { x \in FloatingFirst :
                        b \in ExactSignatures /\ PartsEnd(PartsOf(x), 1) > Len(b) } }

\* ---------------------------------------------------------------------------
\* FileFormat::from_file
\* ---------------------------------------------------------------------------
Min(a, b) == IF a <= b THEN a ELSE b

\* No path: from_file was not called.
NoFile == [ kind |-> "none", data |-> <<>> ]

\* The Result of File::open: Err, or Ok with the contents the File reads.
OpenErr == [ tag |-> "Err", data |-> <<>> ]
OpenOk(data) == [ tag |-> "Ok", data |-> data ]

\* The Result of the read, as the operating system decides it: Err, or Ok
\* delivering `short` bytes fewer than the bytes it could deliver.
ReadErr == [ tag |-> "Err", short |-> 0 ]
ReadOk(short) == [ tag |-> "Ok", short |-> short ]

\* handle.read(&mut buffer) on file.take(limit), the file at its start: at most
\* limit bytes and at most buffer.len() bytes, taken from the start of the file
\* in order into the start of the buffer; no byte only at the end of the file.
Take_read(data, limit, buf, short) ==
  LET most == Min(Min(Len(buf), limit), Len(data))
      n == IF most - short >= 1 THEN most - short ELSE Min(most, 1)
  IN  [ n |-> n, buffer |-> Take(data, n) \o SubSeq(buf, n + 1, Len(buf)) ]

\* What from_file returns when `?` returns the error of the call `failed`.
from_file_Err(failed) ==
  [ result |-> [ tag |-> "Err", error |-> failed ],
    buffer |-> <<>>, read |-> 0,
    called |-> FALSE, bytes |-> <<>>, format |-> NoFormat, panicked |-> FALSE ]

\* What from_file returns when the slice &buffer[0..read] is out of range.
from_file_Panic(buf, n) ==
  [ result |-> [ tag |-> "none", error |-> "none" ],
    buffer |-> buf, read |-> n,
    called |-> FALSE, bytes |-> <<>>, format |-> NoFormat, panicked |-> TRUE ]

\* What from_file returns after from_bytes(passed) has returned r.
from_file_Ok(buf, n, passed, r) ==
  [ result |-> [ tag |-> "Ok", error |-> "none" ],
    buffer |-> buf, read |-> n,
    called |-> TRUE, bytes |-> passed, format |-> r.format, panicked |-> r.panicked ]

\* The rest of from_file once the read has returned n, with the slice
\* buf[from..to] handed to from_bytes.
from_file_Pass(buf, n, from, to) ==
  IF SliceInRange(buf, from, to)
    THEN from_file_Ok(buf, n, Slice(buf, from, to), from_bytes(Slice(buf, from, to)))
    ELSE from_file_Panic(buf, n)

\* from_file that reads the file to its end, into a buffer as long as the file.
from_file_ReadToEnd(opened, got) ==
  IF opened.tag = "Err" THEN from_file_Err("open")
  ELSE IF got.tag = "Err" THEN from_file_Err("read")
  ELSE from_file_Pass(opened.data, Len(opened.data), 0, Len(opened.data))

\* The outcome of from_file_WholeBuffer after the read.
from_file_WholeBuffer_Read(rd) == from_file_Pass(rd.buffer, rd.n, 0, Len(rd.buffer))

\* from_file that hands the whole buffer to from_bytes.
from_file_WholeBuffer(opened, got) ==
  IF opened.tag = "Err" THEN from_file_Err("open")
  ELSE IF got.tag = "Err" THEN from_file_Err("read")
  ELSE from_file_WholeBuffer_Read(
         Take_read(opened.data, MAX_BYTES, Filled(MAX_BYTES, 0), got.short))

\* The outcome of from_file_ExactRead after the read.
from_file_ExactRead_Read(rd) ==
  IF rd.n < MAX_BYTES THEN from_file_Err("read")
  ELSE from_file_Pass(rd.buffer, rd.n, 0, rd.n)

\* from_file that fails, as read_exact does, when the read does not fill the
\* buffer.
from_file_ExactRead(opened, got) ==
  IF opened.tag = "Err" THEN from_file_Err("open")
  ELSE IF got.tag = "Err" THEN from_file_Err("read")
  ELSE from_file_ExactRead_Read(
         Take_read(opened.data, MAX_BYTES, Filled(MAX_BYTES, 0), got.short))

\* from_file_Read that takes a read of no bytes for a failure.
from_file_Read_NonEmpty(rd) ==
  IF rd.n = 0 THEN from_file_Err("read")
  ELSE from_file_Pass(rd.buffer, rd.n, 0, rd.n)

\* The last line of from_file, rd being what the read left in `buffer` and
\* returned as `read`:
\*   Ok(FileFormat::from_bytes(&buffer[0..read]))
from_file_Read(rd) == from_file_Pass(rd.buffer, rd.n, 0, rd.n)

\* FileFormat::from_file, given how File::open and the read end:
\*   let file = File::open(path)?;
\*   let mut handle = file.take(FileFormat::MAX_BYTES);
\*   let mut buffer = [0; FileFormat::MAX_BYTES as usize];
\*   let read = handle.read(&mut buffer)?;
\*   Ok(FileFormat::from_bytes(&buffer[0..read]))
from_file(opened, got) ==
  IF opened.tag = "Err" THEN from_file_Err("open")
  ELSE IF got.tag = "Err" THEN from_file_Err("read")
  ELSE from_file_Read(
         Take_read(opened.data, MAX_BYTES, Filled(MAX_BYTES, 0), got.short))

\* ---------------------------------------------------------------------------
\* Calls of from_bytes side by side.  from_signature is a chain of `if`s, one
\* per rule; a call is at one of them at a time, and the calls of different
\* threads, each on its own buffer, take their steps in any order.
\* ---------------------------------------------------------------------------
Threads == { "t1", "t2" }

\* A thread that has not called.
NoScan == [ pc |-> "idle", bytes |-> <<>>, next |-> 1, format |-> NoFormat ]

\* The `if` a call is at: its own place in from_signature.
Position_Shared(s, t) ==
  CHOOSE n \in { s[u].next : u \in Threads } : \A u \in Threads : s[u].next <= n

Position(s, t) == s[t].next

\* scan_rule that moves the buffer on by one byte when the rule does not apply.
scan_rule_Consuming(call, i) ==
  LET c == RuleCond(call.bytes, signatures[i])
  IN  IF c = "true"
        THEN [ call EXCEPT !.pc = "returned",
                           !.format = FileFormat_new(signatures[i].media_type,
                                                     signatures[i].extension) ]
      ELSE IF c = "false"
        THEN [ call EXCEPT !.next = i + 1,
                           !.bytes = IF @ = <<>> THEN @ ELSE Tail(@) ]
      ELSE [ call EXCEPT !.pc = "panicked" ]

\* The `if` of rule i in a call: return the rule's FileFormat when its
\* condition is true, go on to the next `if` when it is false.
scan_rule(call, i) ==
  LET c == RuleCond(call.bytes, signatures[i])
  IN  IF c = "true"
        THEN [ call EXCEPT !.pc = "returned",
                           !.format = FileFormat_new(signatures[i].media_type,
                                                     signatures[i].extension) ]
      ELSE IF c = "false"
        THEN [ call EXCEPT !.next = i + 1 ]
      ELSE [ call EXCEPT !.pc = "panicked" ]

\* The buffers of the side-by-side calls: signatures matched early in the
\* table, in its middle, further on and by its last rule, and a buffer no rule
\* matches.
ScanBuffers ==
  { Fixture(<<IndexOf(sig_odt), 1>>, 0),
    Fixture(<<IndexOf(sig_png), 1>>, 0),
    Fixture(<<IndexOf(sig_gif), 2>>, 0),
    Fixture(<<IndexOf(sig_zip), 1>>, 0),
    Fixture(<<Len(signatures), 2>>, 0),
    Filled(Len(sig_png.signatures[1].parts[1].value), 0) }

\* A thread calls from_bytes on its buffer.
ScanStart(t) ==
  \E b \in ScanBuffers :
    /\ scans[t].pc = "idle"
    /\ scans' = [ scans EXCEPT ![t] = [ NoScan EXCEPT !.pc = "scanning", !.bytes = b ] ]
    /\ UNCHANGED <<bytes, format, panicked, pc, fileVars, before>>

\* The call of a thread evaluates the `if` it is at.
ScanRule(t) ==
  /\ scans[t].pc = "scanning"
  /\ Position(scans, t) <= Len(signatures)
  /\ scans' = [ scans EXCEPT ![t] = scan_rule(scans[t], Position(scans, t)) ]
  /\ UNCHANGED <<bytes, format, panicked, pc, fileVars, before>>

\* The call of a thread is past the last `if`: from_signature returns None and
\* from_bytes the default.
ScanEnd(t) ==
  /\ scans[t].pc = "scanning"
  /\ Position(scans, t) > Len(signatures)
  /\ scans' = [ scans EXCEPT ![t].pc = "returned",
                             ![t].format = unwrap_or_default([ tag |-> "None" ]) ]
  /\ UNCHANGED <<bytes, format, panicked, pc, fileVars, before>>

NextThreads ==
  \E t \in Threads :
    \/ ScanStart(t)
    \/ ScanRule(t)
    \/ ScanEnd(t)

\* ---------------------------------------------------------------------------
\* The calls: the program makes one call of from_bytes and ends.
\* ---------------------------------------------------------------------------

\* Lengths of the short all-zero buffers.
MaxZeroed == 40
\* Bytes cut off the end of a buffer, and bytes appended to it.
MaxCut == 1
MaxExtra == 1
\* Bytes a read delivers fewer than it could.
MaxShort == 1
\* Bytes of one value appended to a buffer for a second call.
MaxAppend == 1

Init ==
  /\ bytes = <<>>
  /\ format = NoFormat
  /\ panicked = FALSE
  /\ pc = "idle"
  /\ file = NoFile
  /\ io = [ open |-> "none", read |-> "none" ]
  /\ buffer = <<>>
  /\ read = 0
  /\ result = [ tag |-> "none", error |-> "none" ]
  /\ scans = [ t \in Threads |-> NoScan ]
  /\ before = [ called |-> FALSE, bytes |-> <<>>, format |-> NoFormat ]

\* The lengths a buffer built for a rule is cut to: the start of each part of
\* the rule, one byte short of its end, and its end.
CutLengths(r) ==
  UNION { UNION { { PartsOf(<<r, a>>)[i].offset,
                    PartEnd(PartsOf(<<r, a>>)[i]) - 1,
                    PartEnd(PartsOf(<<r, a>>)[i]) } :
                  i \in 1..Len(PartsOf(<<r, a>>)) } :
          a \in 1..Len(signatures[r].signatures) }

\* from_bytes on the exact signature of an alternative.
CallFixture ==
  \E ra \in Alternatives, fill \in Fills :
    LET b == Fixture(ra, fill)
        r == from_bytes(b)
    IN  /\ pc = "idle"
        /\ bytes' = b
        /\ format' = r.format
        /\ panicked' = r.panicked
        /\ pc' = "returned"
        /\ UNCHANGED <<fileVars, scans, before>>

\* from_bytes on a signature cut short.
CallTruncated ==
  \E ra \in Alternatives, fill \in Fills :
    \E n \in CutLengths(ra[1]) \cup
             { PartsEnd(PartsOf(ra), 1) - k : k \in 1..MaxCut } :
      LET b == Take(Fixture(ra, fill), n)
          r == from_bytes(b)
      IN  /\ pc = "idle"
          /\ 0 <= n /\ n < PartsEnd(PartsOf(ra), 1)
          /\ bytes' = b
          /\ format' = r.format
          /\ panicked' = r.panicked
          /\ pc' = "returned"
        /\ UNCHANGED <<fileVars, scans, before>>

\* from_bytes on a signature followed by further bytes.
CallExtended ==
  \E ra \in Alternatives, fill \in Fills, k \in 1..MaxExtra :
    LET b == Fixture(ra, fill) \o Filled(k, fill)
        r == from_bytes(b)
    IN  /\ pc = "idle"
        /\ bytes' = b
        /\ format' = r.format
        /\ panicked' = r.panicked
        /\ pc' = "returned"
        /\ UNCHANGED <<fileVars, scans, before>>

\* from_bytes on a signature followed by further bytes up to beyond MAX_BYTES.
CallLong ==
  \E ra \in Alternatives, k \in 1..MaxExtra :
    \E b \in { Fixture(ra, 0) \o Filled(MAX_BYTES + k - PartsEnd(PartsOf(ra), 1), 255) } :
      \E r \in { from_bytes(b) } :
        /\ pc = "idle"
        /\ bytes' = b
        /\ format' = r.format
        /\ panicked' = r.panicked
        /\ pc' = "returned"
        /\ UNCHANGED <<fileVars, scans, before>>

\* from_bytes on a buffer that holds two signatures.
CallOverlay ==
  \E ra \in Alternatives, over \in FloatingFirst :
    LET b == Overlay(ra, over, 0)
        r == from_bytes(b)
    IN  /\ pc = "idle"
        /\ bytes' = b
        /\ format' = r.format
        /\ panicked' = r.panicked
        /\ pc' = "returned"
        /\ UNCHANGED <<fileVars, scans, before>>

\* from_bytes on a buffer that mixes the parts of two alternatives of a rule.
CallMixed ==
  \E p \in MixedPairs, fill \in Fills :
    LET b == Mixed(p[1], p[2], fill)
        r == from_bytes(b)
    IN  /\ pc = "idle"
        /\ bytes' = b
        /\ format' = r.format
        /\ panicked' = r.panicked
        /\ pc' = "returned"
        /\ UNCHANGED <<fileVars, scans, before>>

\* from_bytes on the empty buffer and on every buffer of one byte.
CallShort ==
  \E b \in { <<>> } \cup { << x >> : x \in 0..255 } :
    \E r \in { from_bytes(b) } :
        /\ pc = "idle"
        /\ bytes' = b
        /\ format' = r.format
        /\ panicked' = r.panicked
        /\ pc' = "returned"
        /\ UNCHANGED <<fileVars, scans, before>>

\* from_bytes on a zeroed buffer.
CallZeroed ==
  \E n \in (0..MaxZeroed) \cup { MAX_BYTES - 1, MAX_BYTES, MAX_BYTES + 1 } :
    LET b == Filled(n, 0)
        r == from_bytes(b)
    IN  /\ pc = "idle"
        /\ bytes' = b
        /\ format' = r.format
        /\ panicked' = r.panicked
        /\ pc' = "returned"
        /\ UNCHANGED <<fileVars, scans, before>>

\* The contents of the files from_file is called on: the signature of each
\* alternative, files of one repeated byte from empty to longer than
\* MAX_BYTES, and the longest signature followed by more bytes.
FileContents ==
  { Fixture(ra, 71) : ra \in Alternatives }
    \cup { Filled(n, fill) : n \in { 0, 1, MAX_BYTES - 1, MAX_BYTES }, fill \in { 0, 71 } }
    \cup { Filled(MAX_BYTES + k, fill) : k \in 1..MaxExtra, fill \in { 0, 71 } }
    \cup { Fixture(ra, 0) \o Filled(k, 255) :
             ra \in { x \in Alternatives : PartsEnd(PartsOf(x), 1) = MAX_BYTES },
             k \in 1..MaxExtra }

\* from_file on a path File::open fails on.
CallFileMissing ==
  \E f \in { from_file(OpenErr, ReadErr) } :
      /\ pc = "idle"
      /\ file' = [ kind |-> "missing", data |-> <<>> ]
      /\ io' = [ open |-> "Err", read |-> "none" ]
      /\ buffer' = f.buffer
      /\ read' = f.read
      /\ result' = f.result
      /\ bytes' = f.bytes
      /\ format' = f.format
      /\ panicked' = f.panicked
      /\ pc' = IF f.called THEN "returned" ELSE "failed"
      /\ UNCHANGED <<scans, before>>

\* from_file on a path that opens and whose read fails: a directory, or a
\* file on a device that fails.
CallFileUnreadable ==
  \E named \in { [ kind |-> "directory", data |-> <<>> ] }
                  \cup { [ kind |-> "regular", data |-> d ] : d \in FileContents } :
    \E f \in { from_file(OpenOk(named.data), ReadErr) } :
        /\ pc = "idle"
        /\ file' = named
        /\ io' = [ open |-> "Ok", read |-> "Err" ]
        /\ buffer' = f.buffer
        /\ read' = f.read
        /\ result' = f.result
        /\ bytes' = f.bytes
        /\ format' = f.format
        /\ panicked' = f.panicked
        /\ pc' = IF f.called THEN "returned" ELSE "failed"
        /\ UNCHANGED <<scans, before>>
      /\ UNCHANGED <<scans, before>>

\* from_file on a file that opens and reads.
CallFile ==
  \E data \in FileContents, short \in 0..MaxShort :
    \E f \in { from_file(OpenOk(data), ReadOk(short)) } :
        /\ pc = "idle"
        /\ file' = [ kind |-> "regular", data |-> data ]
        /\ io' = [ open |-> "Ok", read |-> "Ok" ]
        /\ buffer' = f.buffer
        /\ read' = f.read
        /\ result' = f.result
        /\ bytes' = f.bytes
        /\ format' = f.format
        /\ panicked' = f.panicked
        /\ pc' = IF f.called THEN "returned" ELSE "failed"
        /\ UNCHANGED <<scans, before>>
      /\ UNCHANGED <<scans, before>>

\* from_bytes called again, on the buffer of the call that returned with
\* bytes appended to it.
CallAppended ==
  \E s \in Suffixes(bytes, MaxAppend) :
    \E r \in { from_bytes(bytes \o s) } :
      /\ pc = "returned"
      /\ ~before.called
      /\ before' = [ called |-> TRUE, bytes |-> bytes, format |-> format ]
      /\ bytes' = bytes \o s
      /\ format' = r.format
      /\ panicked' = r.panicked
      /\ pc' = "returned"
      /\ UNCHANGED <<fileVars, scans>>

Next ==
  \/ CallFixture
  \/ CallTruncated
  \/ CallExtended
  \/ CallLong
  \/ CallOverlay
  \/ CallMixed
  \/ CallZeroed
  \/ CallShort
  \/ CallFileMissing
  \/ CallFileUnreadable
  \/ CallFile

Spec == Init /\ [][Next]_vars

SpecThreads == Init /\ [][NextThreads]_vars

\* The program that calls from_bytes on a buffer and then again on the buffer
\* with bytes appended.
NextAppend ==
  \/ CallFixture
  \/ CallTruncated
  \/ CallAppended

SpecAppend == Init /\ [][NextAppend]_vars

\* ---------------------------------------------------------------------------
\* The vocabulary of the properties: what it means for a part, an alternative
\* and a rule to match a buffer (spec, section 3), stated on the bytes and
\* independently of how the generated code evaluates its conditions.
\* ---------------------------------------------------------------------------

Returned == pc = "returned"

PartHolds(b, part) ==
  /\ Len(b) >= part.offset + Len(part.value)
  /\ \A i \in 1..Len(part.value) : b[part.offset + i] = part.value[i]

AltHolds(b, alt) == \A i \in 1..Len(alt.parts) : PartHolds(b, alt.parts[i])

RuleHolds(b, rule) ==
  \E a \in 1..Len(rule.signatures) : AltHolds(b, rule.signatures[a])

\* The FileFormat a rule stands for.
ResultOf(rule) == [ media_type |-> rule.media_type, extension |-> rule.extension ]

Matching(b) == { i \in 1..Len(signatures) : RuleHolds(b, signatures[i]) }

IsZeroed(b) == \A i \in 1..Len(b) : b[i] = 0

\* ---------------------------------------------------------------------------
\* C1: from_bytes returns the result of the first rule, in declaration order,
\* that matches the buffer, and the default when no rule matches; a later
\* matching rule never overrides an earlier one.
\* ---------------------------------------------------------------------------
C1_FirstMatchWins ==
  Returned =>
    LET m == Matching(bytes)
    IN  /\ m = {} => format = FileFormat_default
        /\ \A i \in m :
             (\A j \in m : i <= j) => format = ResultOf(signatures[i])

\* A buffer two rules match, classified as the earlier one.
C1_Witness ==
  /\ Returned
  /\ \E i, j \in Matching(bytes) :
       i < j /\ format = ResultOf(signatures[i]) /\ format # ResultOf(signatures[j])

\* ---------------------------------------------------------------------------
\* C2: from_bytes is total and never reads out of bounds: for a buffer of any
\* length it returns a FileFormat, and no slice of the buffer is taken beyond
\* its end.
\* ---------------------------------------------------------------------------
C2_TotalNoOverrun ==
  Returned =>
    /\ ~panicked
    /\ format # NoFormat
    /\ format = FileFormat_default \/ \E i \in 1..Len(signatures) : format = ResultOf(signatures[i])

\* A buffer that ends inside the second part of an alternative whose first
\* part it holds, classified without a panic.
C2_Witness ==
  /\ Returned
  /\ ~panicked
  /\ format # NoFormat
  /\ \E ra \in Alternatives :
       /\ Len(PartsOf(ra)) >= 2
       /\ PartHolds(bytes, PartsOf(ra)[1])
       /\ PartsOf(ra)[2].offset < Len(bytes)
       /\ Len(bytes) < PartEnd(PartsOf(ra)[2])

\* ---------------------------------------------------------------------------
\* C3: from_bytes of the empty buffer and of an all-zero buffer of any length
\* is FileFormat::default(): no rule is satisfied by zero bytes alone.
\* ---------------------------------------------------------------------------
C3_ZeroedIsDefault ==
  (Returned /\ IsZeroed(bytes)) => format = FileFormat_default

\* The zeroed buffer of MAX_BYTES bytes, which reaches every offset of the table.
C3_Witness ==
  /\ Returned
  /\ Len(bytes) = MAX_BYTES
  /\ IsZeroed(bytes)
  /\ format = FileFormat_default

\* ---------------------------------------------------------------------------
\* C4: no rule of the table has the result (application/octet-stream, bin), so
\* from_bytes returns the default if and only if no rule matches the buffer.
\* ---------------------------------------------------------------------------
C4_DefaultIffNoRule ==
  /\ \A i \in 1..Len(signatures) : ResultOf(signatures[i]) # FileFormat_default
  /\ Returned => (format = FileFormat_default <=> Matching(bytes) = {})

\* A buffer that is neither empty nor zeroed, matched by no rule.
C4_Witness ==
  /\ Returned
  /\ Len(bytes) > 0
  /\ ~IsZeroed(bytes)
  /\ Matching(bytes) = {}
  /\ format = FileFormat_default

\* ---------------------------------------------------------------------------
\* C5: a buffer with the 8-byte PNG signature at offset 0 and "acTL" at offset
\* 0x25 is (image/apng, apng), whatever its other bytes are.
\* ---------------------------------------------------------------------------
PngSignature == <<137, 80, 78, 71, 13, 10, 26, 10>>
acTL == <<97, 99, 84, 76>>
ApngFormat ==
  [ media_type |-> <<105, 109, 97, 103, 101, 47, 97, 112, 110, 103>>,
    extension |-> <<97, 112, 110, 103>> ]

HoldsAt(b, offset, value) ==
  /\ Len(b) >= offset + Len(value)
  /\ \A i \in 1..Len(value) : b[offset + i] = value[i]

C5_ApngBeforePng ==
  (Returned /\ HoldsAt(bytes, 0, PngSignature) /\ HoldsAt(bytes, 37, acTL))
    => format = ApngFormat

\* Such a buffer that holds the signature of a third format behind "acTL".
C5_Witness ==
  /\ Returned
  /\ HoldsAt(bytes, 0, PngSignature)
  /\ HoldsAt(bytes, 37, acTL)
  /\ \E i \in Matching(bytes) : signatures[i] \notin { sig_apng, sig_png }
  /\ format = ApngFormat

\* ---------------------------------------------------------------------------
\* C6 (as claimed): a buffer that starts with "RIFF", has any 4 bytes at
\* offsets 4..7, a form tag at offset 8 and any further bytes is
\* (audio/vnd.wave, wav) for "WAVE", (image/webp, webp) for "WEBP" and
\* (video/avi, avi) for "AVI ".
\* ---------------------------------------------------------------------------
RIFF == <<82, 73, 70, 70>>

\* The form tags and the formats the claim gives them.
RiffForms ==
  { [ tag |-> <<87, 65, 86, 69>>,     \* "WAVE"
      format |-> [ media_type |-> <<97, 117, 100, 105, 111, 47, 118, 110, 100, 46, 119, 97, 118, 101>>,
                   extension |-> <<119, 97, 118>> ] ],
    [ tag |-> <<87, 69, 66, 80>>,     \* "WEBP"
      format |-> [ media_type |-> <<105, 109, 97, 103, 101, 47, 119, 101, 98, 112>>,
                   extension |-> <<119, 101, 98, 112>> ] ],
    [ tag |-> <<65, 86, 73, 32>>,     \* "AVI "
      format |-> [ media_type |-> <<118, 105, 100, 101, 111, 47, 97, 118, 105>>,
                   extension |-> <<97, 118, 105>> ] ] }

IsRiff(b, form) == HoldsAt(b, 0, RIFF) /\ HoldsAt(b, 8, form.tag)

C6_RiffForms_AsClaimed ==
  Returned =>
    \A form \in RiffForms : IsRiff(bytes, form) => format = form.format

\* C6 (amended): such a buffer is classified by its form tag unless its
\* further bytes hold the signature of one of the rules listed before the
\* RIFF rules that look at no byte of the RIFF header: gbc and gb (offset
\* 0x104), mobi (offset 60), nds (offset 0xC0) and tar (offset 257).  Then the
\* result is that of one of those rules.
BehindRiff == { sig_gbc, sig_gb, sig_mobi, sig_nds, sig_tar }

C6_RiffForms ==
  Returned =>
    \A form \in RiffForms :
      IsRiff(bytes, form) =>
        LET behind == { rule \in BehindRiff : RuleHolds(bytes, rule) }
        IN  /\ behind = {} => format = form.format
            /\ behind # {} => \E rule \in behind : format = ResultOf(rule)

\* A RIFF/WAVE buffer with further bytes that a rule listed after the wav rule
\* matches as well, classified as wav.
C6_Witness ==
  /\ Returned
  /\ \E form \in RiffForms :
       /\ IsRiff(bytes, form)
       /\ Len(bytes) > 12
       /\ form.format = ResultOf(sig_wav)
       /\ format = form.format
       /\ \E i \in Matching(bytes) : i > IndexOf(sig_wav)

\* ---------------------------------------------------------------------------
\* C7: for a container prefix shared by a generic rule and a more specific
\* one, the buffer that holds the prefix and the extra bytes of the specific
\* rule is the specific format, and the same buffer cut so that the extra
\* bytes are not all there is the generic format (the default where the table
\* has no generic rule).
\* ---------------------------------------------------------------------------
\* <<the specific rule, the format of the prefix alone>>
Families ==
  { <<sig_odp, ResultOf(sig_zip)>>, <<sig_ods, ResultOf(sig_zip)>>,
    <<sig_odg, ResultOf(sig_zip)>>, <<sig_odt, ResultOf(sig_zip)>>,
    <<sig_epub, ResultOf(sig_zip)>>,
    <<sig_opus, ResultOf(sig_ogx)>>, <<sig_ogg, ResultOf(sig_ogx)>>,
    <<sig_ogv, ResultOf(sig_ogx)>>, <<sig_spx, ResultOf(sig_ogx)>>,
    <<sig_ogm, ResultOf(sig_ogx)>>, <<sig_oga, ResultOf(sig_ogx)>>,
    <<sig_deb, ResultOf(sig_ar)>>,
    <<sig_mkv, FileFormat_default>>, <<sig_webm, FileFormat_default>> }

\* The buffers of the claim: the prefix (the first part of the specific rule),
\* its extra bytes (the other parts), a fill byte in between.
FamilyCases ==
  { [ full |-> Fixture(<<IndexOf(fam[1]), 1>>, fill),
      prefix |-> PartEnd(fam[1].signatures[1].parts[1]),
      specific |-> ResultOf(fam[1]),
      generic |-> fam[2] ] : fam \in Families, fill \in Fills }

IsCutOf(b, case) ==
  /\ case.prefix <= Len(b)
  /\ Len(b) < Len(case.full)
  /\ b = Take(case.full, Len(b))

OneByteShort(b, rule) ==
  { a \in 1..Len(rule.signatures) :
      \E i \in 1..Len(rule.signatures[a].parts) :
        Len(b) = PartEnd(rule.signatures[a].parts[i]) - 1 }

C8_OneByteShort_AsClaimed ==
  Returned =>
    /\ ~panicked
    /\ \A r \in 1..Len(signatures) :
         OneByteShort(bytes, signatures[r]) # {} => format # ResultOf(signatures[r])

\* C8 (amended): such a buffer does not match the alternative the part belongs
\* to, and from_bytes does not panic on it; it returns the rule's format only
\* when another alternative of the rule, all of whose parts fit in the buffer,
\* matches (rar: 7 bytes are one short of the 8-byte alternative and are the
\* whole 7-byte alternative).
C8_OneByteShort ==
  Returned =>
    /\ ~panicked
    /\ \A r \in 1..Len(signatures) :
         \A a \in OneByteShort(bytes, signatures[r]) :
           /\ ~AltHolds(bytes, signatures[r].signatures[a])
           /\ format = ResultOf(signatures[r]) =>
                \E a2 \in 1..Len(signatures[r].signatures) :
                  /\ a2 # a
                  /\ AltHolds(bytes, signatures[r].signatures[a2])
                  /\ PartsEnd(signatures[r].signatures[a2].parts, 1) <= Len(bytes)

\* The signature of an alternative without its last byte: every other byte of
\* the alternative is there, and the rule's format is not returned.
C8_Witness ==
  /\ Returned
  /\ ~panicked
  /\ \E ra \in Alternatives, fill \in Fills :
       /\ Len(bytes) = PartsEnd(PartsOf(ra), 1) - 1
       /\ bytes = Take(Fixture(ra, fill), Len(bytes))
       /\ ra[1] = IndexOf(sig_rar)
       /\ format # ResultOf(sig_rar)

\* ---------------------------------------------------------------------------
\* C9: every FileFormat from_bytes can return (the result of each rule, and
\* the default) has an entry with the same (media_type, extension) in the
\* formats! catalog.
\* ---------------------------------------------------------------------------
C9_ResultInCatalog ==
  Returned => format \in formats

\* ---------------------------------------------------------------------------
\* C10 (as claimed): media_type() and extension() of every FileFormat
\* from_bytes can return are ASCII strings with no upper-case letter.
\* ---------------------------------------------------------------------------
IsAscii(s) == \A i \in 1..Len(s) : s[i] < 128
HasUpperCase(s) == \E i \in 1..Len(s) : 65 <= s[i] /\ s[i] <= 90

\* Every FileFormat from_bytes can return: the result of a rule, or the default.
Returnable ==
  { ResultOf(signatures[i]) : i \in 1..Len(signatures) } \cup { FileFormat_default }

C10_LowerCaseAscii_AsClaimed ==
  Returned =>
    /\ format \in Returnable
    /\ IsAscii(media_type(format)) /\ ~HasUpperCase(media_type(format))
    /\ IsAscii(extension(format)) /\ ~HasUpperCase(extension(format))

\* C10 (amended): both are ASCII strings; the media type has no upper-case
\* letter, and the extension has none except for application/x-compress, whose
\* extension is "Z".
CompressFormat ==
  [ media_type |-> <<97, 112, 112, 108, 105, 99, 97, 116, 105, 111, 110, 47, 120, 45, 99, 111, 109, 112, 114, 101, 115, 115>>,
    extension |-> <<90>> ]

LowerCaseButZ(f) ==
  /\ IsAscii(media_type(f)) /\ ~HasUpperCase(media_type(f))
  /\ IsAscii(extension(f))
  /\ HasUpperCase(extension(f)) => f = CompressFormat

C10_LowerCaseAscii ==
  /\ \A f \in Returnable : LowerCaseButZ(f)
  /\ Returned => format \in Returnable /\ LowerCaseButZ(format)

\* A call that returns (application/x-compress, Z).
C10_Witness ==
  /\ Returned
  /\ format = CompressFormat
  /\ extension(format) = <<90>>

\* ---------------------------------------------------------------------------
\* C12: from_bytes on exactly the eight bytes 89 50 4E 47 0D 0A 1A 0A returns
\* the FileFormat with media type "image/png" and extension "png".
\* ---------------------------------------------------------------------------
PngFormat ==
  [ media_type |-> <<105, 109, 97, 103, 101, 47, 112, 110, 103>>,
    extension |-> <<112, 110, 103>> ]

C12_PngDocTest ==
  (Returned /\ bytes = PngSignature) =>
    /\ ~panicked
    /\ media_type(format) = PngFormat.media_type
    /\ extension(format) = PngFormat.extension

\* The call of the documentation test has returned image/png.
C12_Witness ==
  /\ Returned
  /\ bytes = <<137, 80, 78, 71, 13, 10, 26, 10>>
  /\ format = PngFormat

\* ---------------------------------------------------------------------------
\* C13: from_bytes on the six bytes "GIF87a" and on the six bytes "GIF89a"
\* both return the FileFormat with media type "image/gif" and extension "gif".
\* ---------------------------------------------------------------------------
GIF87a == <<71, 73, 70, 56, 55, 97>>
GIF89a == <<71, 73, 70, 56, 57, 97>>
GifFormat ==
  [ media_type |-> <<105, 109, 97, 103, 101, 47, 103, 105, 102>>,
    extension |-> <<103, 105, 102>> ]

C13_BothGifVersions ==
  (Returned /\ bytes \in { GIF87a, GIF89a }) => (~panicked /\ format = GifFormat)

\* The call on "GIF89a", the second alternative of the rule, has returned
\* image/gif.
C13_Witness ==
  /\ Returned
  /\ bytes = GIF89a
  /\ format = GifFormat

\* ---------------------------------------------------------------------------
\* C19: a part (offset, pattern) matches a buffer exactly when the buffer is
\* at least offset + len(pattern) bytes long and its bytes from offset on equal
\* the pattern; on a shorter buffer the part does not match, and nothing fails.
\* ---------------------------------------------------------------------------
AllParts ==
  UNION { { PartsOf(ra)[i] : i \in 1..Len(PartsOf(ra)) } : ra \in Alternatives }

C19_PartTest ==
  Returned =>
    /\ ~panicked
    /\ \A part \in AllParts :
         PartCond(bytes, part) = IF PartHolds(bytes, part) THEN "true" ELSE "false"

\* A call has returned on a buffer that holds one part in full and ends in the
\* middle of another part's range, which the part test finds false.
C19_Witness ==
  /\ Returned
  /\ \E part \in AllParts : PartHolds(bytes, part) /\ PartCond(bytes, part) = "true"
  /\ \E part \in AllParts :
       /\ part.offset < Len(bytes)
       /\ Len(bytes) < part.offset + Len(part.value)
       /\ PartCond(bytes, part) = "false"

\* ---------------------------------------------------------------------------
\* C20: the condition of a rule is true exactly when at least one of its
\* alternatives has all its parts matching: AND within an alternative, OR
\* across alternatives, and no part of one alternative counts for another.
\* ---------------------------------------------------------------------------
Exif == <<69, 120, 105, 102, 0, 0>>

C20_AndWithinOrAcross ==
  Returned =>
    \A i \in 1..Len(signatures) :
      RuleCond(bytes, signatures[i]) =
        IF RuleHolds(bytes, signatures[i]) THEN "true" ELSE "false"

\* A call has returned on a buffer that starts with FF D8 FF E0 and has "Exif"
\* at offset 6: the Exif part holds, the alternative it belongs to does not,
\* and the image/jpeg condition is false.
C20_Witness ==
  /\ Returned
  /\ HoldsAt(bytes, 0, <<255, 216, 255, 224>>)
  /\ HoldsAt(bytes, 6, Exif)
  /\ PartCond(bytes, sig_jpg.signatures[2].parts[2]) = "true"
  /\ RuleCond(bytes, sig_jpg) = "false"
  /\ format # ResultOf(sig_jpg)

\* ---------------------------------------------------------------------------
\* C14: from_file hands from_bytes at most MAX_BYTES = 36870 bytes: the count
\* the read returns never exceeds 36870, and the slice buffer[0..read] lies
\* within the 36870-byte buffer.
\* ---------------------------------------------------------------------------
FileCalled == file.kind # "none"
FileOk == result.tag = "Ok"

C14_AtMostMaxBytes ==
  (FileCalled /\ io.read = "Ok") =>
    /\ read <= 36870
    /\ Len(buffer) = 36870
    /\ SliceInRange(buffer, 0, read)
    /\ ~panicked
    /\ Len(bytes) <= 36870

\* from_file has returned Ok on a file longer than MAX_BYTES, the read having
\* filled the buffer.
C14_Witness ==
  /\ FileOk
  /\ Len(file.data) > MAX_BYTES
  /\ read = MAX_BYTES
  /\ Len(bytes) = 36870

\* ---------------------------------------------------------------------------
\* C15: the buffer from_file passes to from_bytes is a prefix of the file: its
\* first N bytes in order, 0 <= N <= MAX_BYTES, with no byte skipped,
\* duplicated or reordered and none of the zero-initialised rest of the buffer.
\* ---------------------------------------------------------------------------
IsPrefix(s, t) == Len(s) <= Len(t) /\ s = SubSeq(t, 1, Len(s))

C15_PrefixOfFile ==
  FileOk =>
    /\ Len(bytes) <= MAX_BYTES
    /\ IsPrefix(bytes, file.data)
    /\ Len(bytes) = read

\* from_file has returned Ok after a read that stopped before the end of the
\* file and before the end of the buffer: the buffer goes on with a zero where
\* the file goes on with another byte, and from_bytes got neither.
C15_Witness ==
  /\ FileOk
  /\ 0 < read /\ read < Len(file.data) /\ read < Len(buffer)
  /\ buffer[read + 1] = 0
  /\ file.data[read + 1] # 0
  /\ bytes = Take(file.data, read)

\* ---------------------------------------------------------------------------
\* C16: from_file returns Err only when opening the file or the read fails,
\* and then returns that I/O error and no FileFormat; whenever both succeed it
\* returns Ok, whatever the file's content or length.
\* ---------------------------------------------------------------------------
C16_ErrOnlyOnIoFailure ==
  FileCalled =>
    /\ result.tag = "Err" <=> (io.open = "Err" \/ io.read = "Err")
    /\ result.tag = "Err" =>
         /\ result.error = IF io.open = "Err" THEN "open" ELSE "read"
         /\ format = NoFormat
         /\ pc = "failed"
    /\ (io.open = "Ok" /\ io.read = "Ok") =>
         /\ result.tag = "Ok"
         /\ Returned /\ ~panicked
         /\ format \in Returnable

\* from_file has returned the error of a read that failed on a file that
\* opened.
C16_Witness ==
  /\ result = [ tag |-> "Err", error |-> "read" ]
  /\ file.kind = "regular"
  /\ io = [ open |-> "Ok", read |-> "Err" ]
  /\ format = NoFormat

\* ---------------------------------------------------------------------------
\* C17: calls of from_bytes that run side by side on buffers of their own,
\* against the same table, each return, under every interleaving of their
\* rule-by-rule scans, the result the call returns when it runs alone.
\* ---------------------------------------------------------------------------
C17_ConcurrentAsAlone ==
  \A t \in Threads :
    /\ scans[t].pc # "panicked"
    /\ scans[t].pc = "returned" =>
         /\ ~from_bytes(scans[t].bytes).panicked
         /\ scans[t].format = from_bytes(scans[t].bytes).format

\* One call has returned image/png while the other, on another buffer, is
\* still going through the rules and is already past the image/png rule.
C17_Witness ==
  \E t, u \in Threads :
    /\ t # u
    /\ scans[t].pc = "returned" /\ scans[t].format = PngFormat
    /\ scans[u].pc = "scanning"
    /\ scans[u].bytes # scans[t].bytes
    /\ scans[u].next > IndexOf(sig_png)

\* ---------------------------------------------------------------------------
\* C18: a call of from_bytes leaves the buffer it is given unchanged: from the
\* call to its return the buffer keeps its length and its bytes.  (The rule
\* table is the text of from_signature and has no state to change.)
\* ---------------------------------------------------------------------------
C18_BufferUnchanged ==
  [][ \A t \in Threads :
        scans[t].pc # "idle" => scans'[t].bytes = scans[t].bytes ]_vars

\* A call that went through every rule has returned the default, and its
\* buffer is the zeroed buffer it was given.
C18_Witness ==
  \E t \in Threads :
    /\ scans[t].pc = "returned"
    /\ scans[t].next > Len(signatures)
    /\ scans[t].format = FileFormat_default
    /\ scans[t].bytes # <<>> /\ IsZeroed(scans[t].bytes)

\* ---------------------------------------------------------------------------
\* C21: the table is ordered by non-increasing signature length, the signature
\* length of a rule being the number of pattern bytes of its longest
\* alternative: no rule is listed after a rule with a strictly shorter one, so
\* the rule returned for a buffer is, among the rules the buffer satisfies, one
\* of the greatest signature length.
\* ---------------------------------------------------------------------------
RECURSIVE PatternBytes(_, _)
PatternBytes(parts, i) ==
  IF i > Len(parts) THEN 0 ELSE Len(parts[i].value) + PatternBytes(parts, i + 1)

SignatureLength(rule) ==
  CHOOSE n \in { PatternBytes(rule.signatures[a].parts, 1) : a \in 1..Len(rule.signatures) } :
    \A a \in 1..Len(rule.signatures) : PatternBytes(rule.signatures[a].parts, 1) <= n

OrderedByLength ==
  \A i \in 1..Len(signatures) : \A j \in i..Len(signatures) :
    SignatureLength(signatures[i]) >= SignatureLength(signatures[j])

C21_LongestFirst ==
  /\ OrderedByLength
  /\ Returned =>
       \A i \in Matching(bytes) :
         format = ResultOf(signatures[i]) =>
           \A j \in Matching(bytes) :
             SignatureLength(signatures[i]) >= SignatureLength(signatures[j])

\* A call has returned the format of a rule while the buffer also satisfies a
\* rule of strictly shorter signature length.
C21_Witness ==
  /\ Returned
  /\ \E i, j \in Matching(bytes) :
       /\ format = ResultOf(signatures[i])
       /\ SignatureLength(signatures[i]) > SignatureLength(signatures[j])

\* ---------------------------------------------------------------------------
\* C22: for every part of every rule offset + len(pattern) <= MAX_BYTES, the
\* greatest such sum being MAX_BYTES itself; so every alternative is satisfied
\* by a buffer of at most MAX_BYTES bytes, and the sum stays far below the
\* range of usize (at least 16 bits wide).
\* ---------------------------------------------------------------------------
PartsWithinWindow ==
  /\ \A part \in AllParts :
       /\ part.offset + Len(part.value) <= MAX_BYTES
       /\ part.offset + Len(part.value) < 2^16
  /\ \E part \in AllParts : part.offset + Len(part.value) = MAX_BYTES

EveryAlternativeFits ==
  \A ra \in Alternatives :
    /\ Len(Fixture(ra, 0)) <= MAX_BYTES
    /\ AltHolds(Fixture(ra, 0), signatures[ra[1]].signatures[ra[2]])

C22_WithinWindow ==
  /\ PartsWithinWindow
  /\ EveryAlternativeFits
  /\ Returned => \A i \in Matching(bytes) : RuleHolds(Take(bytes, Min(Len(bytes), MAX_BYTES)), signatures[i])

\* A call on a buffer of exactly MAX_BYTES bytes has returned the format of a
\* rule one of whose parts ends at MAX_BYTES.
C22_Witness ==
  /\ Returned
  /\ Len(bytes) = MAX_BYTES
  /\ \E i \in Matching(bytes) :
       /\ format = ResultOf(signatures[i])
       /\ \E a \in 1..Len(signatures[i].signatures) :
            \E k \in 1..Len(signatures[i].signatures[a].parts) :
              /\ PartEnd(signatures[i].signatures[a].parts[k]) = MAX_BYTES
              /\ PartHolds(bytes, signatures[i].signatures[a].parts[k])

\* ---------------------------------------------------------------------------
\* C23: no two distinct rules of the table produce the same (media_type,
\* extension) pair, although the media types audio/ogg and video/ogg are each
\* shared by several rules with different extensions.
\* ---------------------------------------------------------------------------
AudioOgg == <<97, 117, 100, 105, 111, 47, 111, 103, 103>>
VideoOgg == <<118, 105, 100, 101, 111, 47, 111, 103, 103>>

\* The rules whose media type is mt.
RulesOf(mt) == { i \in 1..Len(signatures) : signatures[i].media_type = mt }

PairsDistinct ==
  \A i, j \in 1..Len(signatures) :
    ResultOf(signatures[i]) = ResultOf(signatures[j]) => i = j

MediaTypesShared ==
  /\ Cardinality(RulesOf(AudioOgg)) > 1
  /\ Cardinality(RulesOf(VideoOgg)) > 1

C23_PairsDistinct ==
  /\ PairsDistinct
  /\ MediaTypesShared
  /\ Returned =>
       Cardinality({ i \in 1..Len(signatures) : ResultOf(signatures[i]) = format }) <= 1

\* A call has returned audio/ogg with the extension of one of the several rules
\* that share this media type.
C23_Witness ==
  /\ Returned
  /\ media_type(format) = AudioOgg
  /\ extension(format) = sig_spx.extension
  /\ \E i \in RulesOf(AudioOgg) : signatures[i].extension # extension(format)

\* ---------------------------------------------------------------------------
\* C24: every rule of the table has at least one alternative, every
\* alternative at least one part, and every part a non-empty pattern; so no
\* part is satisfied by the empty buffer.
\* ---------------------------------------------------------------------------
TableNonEmpty ==
  \A i \in 1..Len(signatures) :
    /\ Len(signatures[i].signatures) >= 1
    /\ \A a \in 1..Len(signatures[i].signatures) :
         /\ Len(signatures[i].signatures[a].parts) >= 1
         /\ \A k \in 1..Len(signatures[i].signatures[a].parts) :
              Len(signatures[i].signatures[a].parts[k].value) >= 1

C24_NothingEmpty ==
  /\ TableNonEmpty
  /\ (Returned /\ bytes = <<>>) =>
       /\ \A part \in AllParts : ~PartHolds(bytes, part) /\ PartCond(bytes, part) = "false"
       /\ format = FileFormat_default

\* A call on the empty buffer has returned, every part test having been false.
C24_Witness ==
  /\ Returned
  /\ Len(bytes) = 0
  /\ \A part \in AllParts : PartCond(bytes, part) = "false"
  /\ Matching(bytes) = {}

\* ---------------------------------------------------------------------------
\* C29: every buffer of length 0 or 1 is classified as the default
\* (application/octet-stream, bin): every alternative of every rule needs a
\* buffer of at least 2 bytes.
\* ---------------------------------------------------------------------------
EveryAlternativeNeedsTwo ==
  \A ra \in Alternatives : PartsEnd(PartsOf(ra), 1) >= 2

C29_ShortIsDefault ==
  /\ EveryAlternativeNeedsTwo
  /\ (Returned /\ Len(bytes) <= 1) =>
       /\ ~panicked
       /\ media_type(format) = FileFormat_default.media_type
       /\ extension(format) = FileFormat_default.extension

\* A call on the one byte 47, the first byte of the shortest signature of the
\* table, has returned the default.
C29_Witness ==
  /\ Returned
  /\ bytes = << 71 >>
  /\ PartHolds(bytes, sig_m2ts.signatures[1].parts[1])
  /\ format = FileFormat_default

\* ---------------------------------------------------------------------------
\* C30: from_file on an existing, readable, empty file returns
\* Ok(FileFormat::default()), not an error.
\* ---------------------------------------------------------------------------
C30_EmptyFileIsDefault ==
  (FileCalled /\ file = [ kind |-> "regular", data |-> <<>> ]
     /\ io = [ open |-> "Ok", read |-> "Ok" ]) =>
    /\ result = [ tag |-> "Ok", error |-> "none" ]
    /\ read = 0
    /\ bytes = <<>>
    /\ ~panicked
    /\ format = FileFormat_default

\* from_file has returned Ok on an empty file that opened and read, the read
\* having returned 0 and left the buffer zeroed.
C30_Witness ==
  /\ FileOk
  /\ file.kind = "regular" /\ Len(file.data) = 0
  /\ read = 0
  /\ Len(buffer) = MAX_BYTES /\ IsZeroed(buffer)
  /\ format = FileFormat_default

\* ---------------------------------------------------------------------------
\* C28: for a readable file of length L, from_file returns from_bytes of the
\* first min(L, MAX_BYTES) bytes of the file: the one read of from_file never
\* delivers fewer bytes than that to from_bytes.
\* ---------------------------------------------------------------------------
Window(data) == Take(data, Min(Len(data), MAX_BYTES))

C28_WholeWindowRead ==
  (FileCalled /\ io = [ open |-> "Ok", read |-> "Ok" ]) =>
    /\ FileOk
    /\ read = Min(Len(file.data), MAX_BYTES)
    /\ bytes = Window(file.data)
    /\ format = from_bytes(Window(file.data)).format

\* ---------------------------------------------------------------------------
\* C26: bytes at index MAX_BYTES = 36870 and beyond never influence the
\* result: for every buffer b longer than MAX_BYTES, from_bytes(b) is
\* from_bytes(b[0..36870]).
\* ---------------------------------------------------------------------------
C26_BeyondWindowIgnored ==
  (Returned /\ Len(bytes) > MAX_BYTES) =>
    /\ format = from_bytes(Take(bytes, 36870)).format
    /\ Matching(bytes) = Matching(Take(bytes, 36870))

\* A call on a buffer longer than MAX_BYTES, with bytes other than zero beyond
\* MAX_BYTES, has returned the format of a rule.
C26_Witness ==
  /\ Returned
  /\ Len(bytes) > MAX_BYTES
  /\ bytes[MAX_BYTES + 1] # 0
  /\ format # FileFormat_default
  /\ format = from_bytes(Take(bytes, MAX_BYTES)).format

\* ---------------------------------------------------------------------------
\* C27: no rule is dead: for every rule of the table there is a buffer of at
\* most MAX_BYTES bytes for which from_bytes returns the result of that rule,
\* so no rule is shadowed altogether by the rules listed before it.
\* ---------------------------------------------------------------------------
\* The rules returned for the exact signature of one of their alternatives.
LiveRules ==
  { i \in 1..Len(signatures) :
      \E a \in 1..Len(signatures[i].signatures) :
        /\ Len(Fixture(<<i, a>>, 0)) <= MAX_BYTES
        /\ from_bytes(Fixture(<<i, a>>, 0)).format = ResultOf(signatures[i]) }

C27_NoDeadRule ==
  /\ LiveRules = 1..Len(signatures)
  /\ (Returned /\ bytes \in ExactSignatures) =>
       \E i \in LiveRules : format = ResultOf(signatures[i])

\* A call has returned the format of the last rule of the table, which every
\* other rule precedes, on a buffer of at most MAX_BYTES bytes.
C27_Witness ==
  /\ Returned
  /\ Len(bytes) <= MAX_BYTES
  /\ Len(signatures) \in Matching(bytes)
  /\ format = ResultOf(signatures[Len(signatures)])
  /\ \A i \in 1..(Len(signatures) - 1) : ~RuleHolds(bytes, signatures[i])

\* ---------------------------------------------------------------------------
\* C25: appending bytes to a buffer never moves the classification to a rule
\* of lower priority: when from_bytes(b) is the result of the rule at index i,
\* from_bytes(b ++ s) is the result of a rule at an index <= i; a buffer
\* classified as other than the default never becomes the default.
\* ---------------------------------------------------------------------------
\* The index of the rule whose result is f, past the table for the default.
Rank(f) ==
  IF \E i \in 1..Len(signatures) : ResultOf(signatures[i]) = f
    THEN CHOOSE i \in 1..Len(signatures) : ResultOf(signatures[i]) = f
    ELSE Len(signatures) + 1

C25_AppendKeepsPriority ==
  before.called =>
    /\ Len(bytes) > Len(before.bytes)
    /\ IsPrefix(before.bytes, bytes)
    /\ Rank(format) <= Rank(before.format)
    /\ before.format # FileFormat_default => format # FileFormat_default

\* After a call that returned the format of a rule, the call on the buffer with
\* bytes appended has returned the format of a rule listed before it.
C25_Witness ==
  /\ before.called
  /\ before.format # FileFormat_default
  /\ Rank(format) < Rank(before.format)
  /\ IsPrefix(before.bytes, bytes)

=============================================================================
